---------------------------- MODULE Spec2Model ----------------------------
(***************************************************************************)
(* A model of pydis (src/pydis/pydis.py): the trace-and-wavelength         *)
(* calibration engine.  Each function of the source that a property is     *)
(* about is a small state machine of its own, with its own specification:  *)
(*                                                                         *)
(*   SpecPeaks    find_peaks                                               *)
(*   SpecTrace    ap_trace                                                 *)
(*   SpecSurface  lines_to_surface and mapwavelength                       *)
(*   SpecFit      HeNeAr_fit (the calibration orchestrator)                *)
(*                                                                         *)
(* Arrays are sequences; the source's 0-based index i is position i+1.     *)
(* Calls into scipy/numpy whose result depends on the pixel data           *)
(* (curve_fit, polyfit, the splines) are modelled by their outcomes: the   *)
(* exception the call can raise, or a value drawn from a small set.        *)
(***************************************************************************)
EXTENDS Integers, Sequences, FiniteSets, TLC

VARIABLES
    \* ---- find_peaks(wave, flux, pwidth, pthreshold, minsep)
    wave, flux, pwidth, pthreshold, minsep,
    pk,          \* candidate peak indices (0-based), after the edge cut
    popt2,       \* popt[2] of each candidate's fit (NaN when it did not converge)
    pcent_pix,   \* fitted pixel centers, one per candidate
    wcent_pix,   \* approximate wavelengths, one per candidate
    fp_ret,      \* the returned pair <<pcent_pix[okcent], wcent_pix[okcent]>>
    fp_pc,       \* "idle", "fit" (in the for loop), "done", "error"
    \* ---- ap_trace(img, fmask, nsteps, ..., Saxis)
    img_shape,   \* img.shape
    Saxis,
    fmask,
    nsteps_arg,  \* nsteps as passed by the caller
    nsteps,      \* nsteps after lines 474-475
    popt_tot,    \* popt_tot[2], the center of the whole-chip fit
    xbins, ybins,
    centers,     \* per bin, the center the edge policy accepted
    popt_bin,    \* popt[2] of the last bin's own fit (line 556)
    mxbins, mybins,
    my,          \* the returned trace
    at_raise,    \* the call that raised out of ap_trace, or "none"
    at_pc,       \* "idle", "global", "bins", "done", "error"
    \* ---- lines_to_surface(img, xcent, ycent, wcent, mode, fit_order)
    ls_mode,
    nsamp,       \* per image row r, the number of distinct xcent with ycent = r
    wfit,        \* the wavelength map, per row; or the spline2d object
    ls_i,        \* the loop variable i of lines 825 and 851
    ls_raise,    \* the exception raised out of lines_to_surface, or "none"
    ls_pc,       \* "idle", "call", "rows", "done", "error"
    \* ---- mapwavelength(trace, wavemap, mode)
    mw_mode,
    trace,       \* spatial position per column, in half pixels
    wavemap,     \* wavemap[r][i]: row r, column i
    trace_wave,  \* the result, in half wavelength units
    mw_raise,
    mw_pc,       \* "idle", "call", "done", "error"
    \* ---- HeNeAr_fit(calimage, ..., interac, tol, fit_order, previous, second_pass)
    interac, previous, second_pass, fit_order, tol,
    sign,        \* -1.0 for the red chip, else 1.0
    hf_pcent_pix,\* pcent_pix / pcent_pix2: the peaks find_peaks returned
    hf_ss,       \* ss: the order in which the peaks are visited
    hf_i,        \* the loop variable i of lines 1097 and 1331
    hf_wcent_pix,\* wcent_pix[ss[i]]: the wavelength predicted for the peak
                 \* visited last (lines 1100, 1333)
    pcent, wcent,    \* the first-pass (pixel, wavelength) pairs
    pcent2, wcent2,  \* the second-pass pairs
    coeff,       \* the polynomial: unbound, the header's guess, or a fit
    wavefit,     \* the InteracWave object: pcent, wcent, ixlib
    event,       \* the click OnClick handled last, and the operator's
                 \* replies to its prompts
    done,        \* the operator's last reply in an order loop
    traced,      \* line_trace has been called
    lt_pcent, lt_wcent,  \* the pcent and wcent line_trace was called with
    xcent_big,   \* what line_trace returned: "list" ([]), "array"
    mono,        \* the latest fit's wtemp: "nofit", "unchecked", or
                 \* "checked" once _CheckMono has been called on it
    hf_raise,    \* the exception raised out of HeNeAr_fit, or "none"
    surf_order,  \* the fit_order passed to lines_to_surface (line 1420)
    hf_pc,
    \* ---- ap_extract(img, trace, apwidth, skysep, skywidth, skydeg, coaddN)
    ex_img,      \* img: rows of columns of counts
    ex_trace,    \* trace: one spatial position per column, in half pixels
    apwidth, skysep, skywidth, skydeg, coaddN,
    onedspec,    \* the summed counts of the columns done so far
    skysubflux,  \* their sky values, each a fraction num/den
    fluxerr,     \* their errors: "finite" or "nan"
    ex_raise,    \* the exception raised out of ap_extract, or "none"
    ex_pc,       \* "idle", "loop", "done", "error"
    \* ---- _CheckMono(wave)
    cm_wave,     \* wave
    cm_up, cm_dn,  \* up, dn
    warned,      \* the warning of line 122 has been printed
    cm_pc,       \* "idle", "call", "done"
    \* ---- line_trace(img, pcent, wcent, fmask, maxbend)
    ln_shape,    \* img.shape
    ln_pcent, ln_wcent,  \* pcent, wcent
    maxbend,
    ln_i,        \* the loop variable i of line 659
    ln_dir,      \* "up": the loop of line 663, "down": that of line 683
    ln_k,        \* how many rows of that loop are done
    xline,       \* <<first, last+1>> of the columns summed and fitted last
    cguess,      \* the seed of the next fit
    ln_popt,     \* the last fit: ok: it converged, c: popt[2], p0: pguess[2]
    ln_xcent, ln_ycent, ln_wcent_big,  \* xcent_big, ycent_big, wcent_big
    ln_raise,    \* the exception raised out of line_trace, or "none"
    ln_pc        \* "idle", "walk", "done", "error"

peakVars == <<wave, flux, pwidth, pthreshold, minsep, pk, popt2, pcent_pix,
              wcent_pix, fp_ret, fp_pc>>

traceVars == <<img_shape, Saxis, fmask, nsteps_arg, nsteps, popt_tot, xbins,
               ybins, centers, popt_bin, mxbins, mybins, my, at_raise,
               at_pc>>

surfVars == <<ls_mode, nsamp, wfit, ls_i, ls_raise, ls_pc>>

mapVars == <<mw_mode, trace, wavemap, trace_wave, mw_raise, mw_pc>>

fitVars == <<interac, previous, second_pass, fit_order, tol, sign,
             hf_pcent_pix, hf_ss, hf_i, hf_wcent_pix, pcent, wcent, pcent2,
             wcent2, coeff,
             wavefit, event, done, traced, lt_pcent, lt_wcent, xcent_big, mono,
             surf_order, hf_raise, hf_pc>>

extVars == <<ex_img, ex_trace, apwidth, skysep, skywidth, skydeg, coaddN,
             onedspec, skysubflux, fluxerr, ex_raise, ex_pc>>

monoVars == <<cm_wave, cm_up, cm_dn, warned, cm_pc>>

lineVars == <<ln_shape, ln_pcent, ln_wcent, maxbend, ln_i, ln_dir, ln_k,
              xline, cguess, ln_popt, ln_xcent, ln_ycent, ln_wcent_big,
              ln_raise, ln_pc>>

vars == <<peakVars, traceVars, surfVars, mapVars, fitVars, extVars, monoVars,
          lineVars>>

-----------------------------------------------------------------------------
(* Generic helpers for 0-based arrays held in sequences.                   *)

At(a, i) == a[i + 1]

Range(a) == {a[k] : k \in 1..Len(a)}

Min(S) == CHOOSE x \in S : \A y \in S : x <= y
Max(S) == CHOOSE x \in S : \A y \in S : x >= y

Abs(x) == IF x < 0 THEN 0 - x ELSE x

\* The subsequence of a at the positions (1-based) satisfying Keep.
RECURSIVE SelectPos(_, _, _)
SelectPos(a, Keep(_), k) ==
    IF k > Len(a) THEN <<>>
    ELSE (IF Keep(k) THEN <<a[k]>> ELSE <<>>) \o SelectPos(a, Keep, k + 1)

\* The increasing sequence of the integers of a finite set.
RECURSIVE SetToSeq(_)
SetToSeq(S) ==
    IF S = {} THEN <<>> ELSE <<Min(S)>> \o SetToSeq(S \ {Min(S)})

\* a sorted ascending, duplicates kept.
RECURSIVE Sorted(_)
Sorted(a) ==
    IF a = <<>> THEN <<>>
    ELSE LET m == Min(Range(a))
             k == CHOOSE j \in 1..Len(a) : a[j] = m
         IN  <<m>> \o Sorted(SubSeq(a, 1, k - 1) \o SubSeq(a, k + 1, Len(a)))

-----------------------------------------------------------------------------
(* find_peaks                                                              *)

\* float('nan').  np.unique sorts NaN after every number, and NaN is the
\* only value np.isfinite rejects here; the model's NaN is a number above
\* every wavelength and pixel it uses.
NaN == 1000000

IsFinite(x) == x # NaN

\* Bounds of the find_peaks inputs.
NFlux == 7
FluxValues == 0..1
PWidths == {1, 2}
MinSeps == {1, 2}
PThresholds == {80, 97}

\* The wavelength axis handed in by HeNeAr_fit is linear in the pixel
\* (line 1063): rising, falling (the red chip's sign = -1) or flat (no
\* DISPDW in the header: disp_approx = 0).
WaveBase == 50
WaveAxis(n, slope) == [k \in 1..n |-> WaveBase + slope * (k - 1)]
Slopes == {0 - 1, 0, 1}

\* 100 * np.percentile(f, p) with numpy's default linear interpolation:
\* position p/100*(n-1) in the sorted data, between its two neighbours.
Percentile100(f, p) ==
    LET v   == Sorted(f)
        pos == p * (Len(f) - 1)
        lo  == pos \div 100
        hi  == IF lo + 1 < Len(f) THEN lo + 1 ELSE lo
    IN  100 * At(v, lo) + (pos % 100) * (At(v, hi) - At(v, lo))

\* high[0] of line 738: the indices with flux >= flux_thresh, ascending.
High(f, p) ==
    LET flux_thresh100 == Percentile100(f, p)
    IN  SetToSeq({i \in 0..(Len(f) - 1) : 100 * At(f, i) >= flux_thresh100})

\* Line 741: the members of high[1:] that follow their predecessor by more
\* than minsep.
PeakStarts(h, sep) ==
    SelectPos(h, LAMBDA k : k >= 2 /\ h[k] - h[k - 1] > sep, 1)

\* Lines 744-745: keep pk > pwidth and pk < len(flux) - pwidth.
EdgeCut(p, w, n) ==
    SelectPos(p, LAMBDA k : p[k] > w /\ p[k] < n - w, 1)

\* np.nanargmax(yi) over the window flux[c-w : c+w]: the first maximum.
WinArgmax(f, c, w) ==
    LET idx == (c - w)..(c + w - 1)
        m   == Max({At(f, j) : j \in idx})
    IN  Min({j \in idx : At(f, j) = m}) - (c - w)

\* The centers curve_fit can return for a window of 2*pwidth samples; the
\* optimiser is not confined to the window.
FitCenters(w) == (0 - 1)..(2 * w)

\* np.unique(a, return_index=True) without the sort: first occurrences in
\* array order (a mutation of UniqueIndex).
UniqueIndexUnsorted(a) ==
    SelectPos([k \in 1..Len(a) |-> k],
              LAMBDA k : \A j \in 1..(k - 1) : a[j] # a[k], 1)

\* np.unique(a, return_index=True)[1]: for each distinct value in ascending
\* order, the position of its first occurrence.
UniqueIndex(a) ==
    LET vals == SetToSeq(Range(a))
    IN  [k \in 1..Len(vals) |->
            Min({j \in 1..Len(a) : a[j] = vals[k]})]

\* Lines 772-773 without the filter (a mutation of OkCent).
OkCentAll(p) == [k \in 1..Len(p) |-> k]

\* Line 772: the positions whose pixel center is finite.
OkCent(p) ==
    SelectPos([k \in 1..Len(p) |-> k], LAMBDA k : IsFinite(p[k]), 1)

Take(a, idx) == [k \in 1..Len(idx) |-> a[idx[k]]]

\* find_peaks is not running.
PeaksIdle ==
    /\ wave = <<>> /\ flux = <<>> /\ pwidth = 0 /\ pthreshold = 0
    /\ minsep = 0 /\ pk = <<>> /\ popt2 = <<>> /\ pcent_pix = <<>>
    /\ wcent_pix = <<>> /\ fp_ret = <<>> /\ fp_pc = "idle"

\* The call: the arguments, and lines 735-750 up to the for loop.
PeaksCall ==
    /\ flux \in [1..NFlux -> FluxValues]
    /\ \E s \in Slopes : wave = WaveAxis(NFlux, s)
    /\ pwidth \in PWidths
    /\ pthreshold \in PThresholds
    /\ minsep \in MinSeps
    /\ pk = EdgeCut(PeakStarts(High(flux, pthreshold), minsep), pwidth, NFlux)
    /\ popt2 = <<>>
    /\ pcent_pix = <<>>
    /\ wcent_pix = <<>>
    /\ fp_ret = <<>>
    /\ fp_pc = "fit"

\* One pass of the for loop (lines 752-764) in which curve_fit converges.
FitPeak ==
    /\ fp_pc = "fit"
    /\ Len(pcent_pix) < Len(pk)
    /\ LET c == pk[Len(pcent_pix) + 1]
       IN  \E x0 \in FitCenters(pwidth) :
             /\ popt2' = Append(popt2, x0)
             /\ pcent_pix' = Append(pcent_pix, (c - pwidth) + x0)
             /\ wcent_pix' = Append(wcent_pix,
                     At(wave, (c - pwidth) + WinArgmax(flux, c, pwidth)))
    /\ UNCHANGED <<wave, flux, pwidth, pthreshold, minsep, pk, fp_ret, fp_pc>>
    /\ UNCHANGED <<traceVars, surfVars, mapVars, fitVars, extVars, monoVars,
                   lineVars>>

\* Line 766: the except clause takes the RuntimeError; the loop goes on.
AfterFitError == "fit"

\* One pass of the for loop in which curve_fit raises RuntimeError
\* (lines 766-768).
FitPeakFails ==
    /\ fp_pc = "fit"
    /\ Len(pcent_pix) < Len(pk)
    /\ popt2' = Append(popt2, NaN)
    /\ pcent_pix' = Append(pcent_pix, NaN)
    /\ wcent_pix' = Append(wcent_pix, NaN)
    /\ fp_pc' = AfterFitError
    /\ UNCHANGED <<wave, flux, pwidth, pthreshold, minsep, pk, fp_ret>>
    /\ UNCHANGED <<traceVars, surfVars, mapVars, fitVars, extVars, monoVars,
                   lineVars>>

\* Lines 770-773: dedup by approximate wavelength, drop the failed fits,
\* return.
PeaksReturn ==
    /\ fp_pc = "fit"
    /\ Len(pcent_pix) = Len(pk)
    /\ LET ss == UniqueIndex(wcent_pix)
           p  == Take(pcent_pix, ss)
           w  == Take(wcent_pix, ss)
           ok == OkCent(p)
       IN  fp_ret' = <<Take(p, ok), Take(w, ok)>>
    /\ fp_pc' = "done"
    /\ UNCHANGED <<wave, flux, pwidth, pthreshold, minsep, pk, popt2,
                   pcent_pix, wcent_pix>>
    /\ UNCHANGED <<traceVars, surfVars, mapVars, fitVars, extVars, monoVars,
                   lineVars>>

PeaksNext == FitPeak \/ FitPeakFails \/ PeaksReturn

-----------------------------------------------------------------------------
(* ap_trace                                                                *)
(*                                                                         *)
(* Spatial positions (Gaussian centers, the trace) are in half pixels, so  *)
(* that a center can have a fractional part; dispersion-axis bin edges are *)
(* whole pixels and bin midpoints half pixels.                             *)

Px(n) == 2 * n

\* Assignment of a float to an element of an int array (ybins has
\* dtype='int'): the fraction is dropped, toward zero.
ToInt(h) == IF h >= 0 THEN h \div 2 ELSE 0 - ((0 - h) \div 2)

\* Bounds of the ap_trace inputs: nsteps in 1..MaxSteps, and images whose
\* dispersion axis is longer than the number of bin edges.
MaxSteps == 6
SpatialSize == 60
DispSizes == {MaxSteps + 1, MaxSteps + 3}
ImgShapes == {<<SpatialSize, d>> : d \in DispSizes}
                 \cup {<<d, SpatialSize>> : d \in DispSizes}

\* Line 566: the margin at either illuminated edge.
EdgeBuf == 25

\* Line 582: the spline's degree, k=3.
SplineK == 3

\* Lines 461-464: the axis of the image indexed by the spatial position.
Waxis(S) == IF S = 0 THEN 1 ELSE 0

\* Lines 468-471: the valid spatial indices.
Ydata(shape, S, mask) ==
    IF Len(mask) > 1 THEN mask
    ELSE [k \in 1..At(shape, Waxis(S)) |-> k - 1]

\* The masks tried: the default (1,), and the chip without a 2-pixel border.
Masks(n) == {<<1>>, [k \in 1..(n - 4) |-> k + 1]}

\* The centers a Gaussian fit can return (half pixels): on and just inside
\* either margin of the valid range.
GausCenters(yd) ==
    LET lo == Px(Min(Range(yd)) + EdgeBuf)
        hi == Px(Max(Range(yd)) - EdgeBuf)
    IN  {lo, lo + 1, hi - 2, hi}

\* Lines 474-475.
StepsFloor(n) == IF n < 4 THEN 4 ELSE n

\* Line 540: np.linspace(0, stop, num, dtype='int'); num >= 4 here.
Linspace(stop, num) == [k \in 1..num |-> ((k - 1) * stop) \div (num - 1)]

\* Line 566 with strict comparisons (a mutation of OffChip).
OffChipStrictly(c, yd) ==
    \/ c < Px(Min(Range(yd)) + EdgeBuf)
    \/ c > Px(Max(Range(yd)) - EdgeBuf)

\* Line 566: the local fit is discarded at or beyond either margin.
OffChip(c, yd) ==
    \/ c <= Px(Min(Range(yd)) + EdgeBuf)
    \/ c >= Px(Max(Range(yd)) - EdgeBuf)

\* Line 585 over the other axis (a mutation of TraceGrid).
TraceGridSpatial(shape, S) == [k \in 1..At(shape, Waxis(S)) |-> k - 1]

\* Line 585: mx = np.arange(0, img.shape[Saxis]).
TraceGrid(shape, S) == [k \in 1..At(shape, S) |-> k - 1]

\* The interpolating spline (s=0) through the knots (x[k], y[k]), x in
\* half pixels, evaluated at half-pixel abscissa t.  At a knot it returns
\* the knot's value, which is all the properties rely on; between knots
\* the cubic is stood in for by the chord of the surrounding knots.
SplineAt(x, y, t) ==
    IF \E k \in 1..Len(x) : x[k] = t
    THEN y[CHOOSE k \in 1..Len(x) : x[k] = t]
    ELSE LET later == {k \in 2..Len(x) : x[k] > t}
             b == IF later = {} THEN Len(x) ELSE Min(later)
             a == b - 1
         IN  y[a] + ((y[b] - y[a]) * (t - x[a])) \div (x[b] - x[a])

TraceIdle ==
    /\ img_shape = <<>> /\ Saxis = 0 /\ fmask = <<>> /\ nsteps_arg = 0
    /\ nsteps = 0 /\ popt_tot = 0 /\ xbins = <<>> /\ ybins = <<>>
    /\ centers = <<>> /\ mxbins = <<>> /\ mybins = <<>> /\ my = <<>>
    /\ popt_bin = 0
    /\ at_raise = "none" /\ at_pc = "idle"

\* The call, and lines 460-475.
TraceCall ==
    /\ img_shape \in ImgShapes
    /\ Saxis \in {0, 1}
    /\ fmask \in Masks(At(img_shape, Waxis(Saxis)))
    /\ nsteps_arg \in 1..MaxSteps
    /\ nsteps = StepsFloor(nsteps_arg)
    /\ popt_tot = 0
    /\ xbins = <<>> /\ ybins = <<>> /\ centers = <<>>
    /\ mxbins = <<>> /\ mybins = <<>> /\ my = <<>>
    /\ popt_bin = 0
    /\ at_raise = "none"
    /\ at_pc = "global"

\* Lines 478-541: the whole-chip Gaussian fit converges; the bin edges.
GlobalFit ==
    /\ at_pc = "global"
    /\ popt_tot' \in GausCenters(Ydata(img_shape, Saxis, fmask))
    /\ xbins' = Linspace(At(img_shape, Saxis), nsteps)
    /\ ybins' = [k \in 1..nsteps |-> 0]
    /\ at_pc' = "bins"
    /\ UNCHANGED <<img_shape, Saxis, fmask, nsteps_arg, nsteps, centers,
                   popt_bin, mxbins, mybins, my, at_raise>>
    /\ UNCHANGED <<peakVars, surfVars, mapVars, fitVars, extVars, monoVars,
                   lineVars>>

\* Line 533: curve_fit raises RuntimeError; nothing catches it.
GlobalFitFails ==
    /\ at_pc = "global"
    /\ at_raise' = "curve_fit:533"
    /\ at_pc' = "error"
    /\ UNCHANGED <<img_shape, Saxis, fmask, nsteps_arg, nsteps, popt_tot,
                   xbins, ybins, centers, popt_bin, mxbins, mybins, my>>
    /\ UNCHANGED <<peakVars, surfVars, mapVars, fitVars, extVars, monoVars,
                   lineVars>>

\* Lines 544-571, one bin whose fit converges: the edge policy, and the
\* store into the integer array ybins.
FitBin ==
    /\ at_pc = "bins"
    /\ Len(centers) < Len(xbins) - 1
    /\ \E c \in GausCenters(Ydata(img_shape, Saxis, fmask)) :
         LET acc == IF OffChip(c, Ydata(img_shape, Saxis, fmask))
                    THEN popt_tot ELSE c
         IN  /\ popt_bin' = c
             /\ centers' = Append(centers, acc)
             /\ ybins' = [ybins EXCEPT ![Len(centers) + 1] = ToInt(acc)]
    /\ UNCHANGED <<img_shape, Saxis, fmask, nsteps_arg, nsteps, popt_tot,
                   xbins, mxbins, mybins, my, at_raise, at_pc>>
    /\ UNCHANGED <<peakVars, surfVars, mapVars, fitVars, extVars, monoVars,
                   lineVars>>

\* Line 556, one bin whose fit does not converge within maxfev: curve_fit
\* raises RuntimeError, and the loop has no handler for it.
FitBinFails ==
    /\ at_pc = "bins"
    /\ Len(centers) < Len(xbins) - 1
    /\ at_raise' = "curve_fit:556"
    /\ at_pc' = "error"
    /\ UNCHANGED <<img_shape, Saxis, fmask, nsteps_arg, nsteps, popt_tot,
                   xbins, ybins, centers, popt_bin, mxbins, mybins, my>>
    /\ UNCHANGED <<peakVars, surfVars, mapVars, fitVars, extVars, monoVars,
                   lineVars>>

\* Lines 577-598: the bin midpoints, the spline and the trace.
\* UnivariateSpline(k=3) needs more than k points and raises otherwise.
BuildTrace ==
    /\ at_pc = "bins"
    /\ Len(centers) = Len(xbins) - 1
    /\ LET mx_ == [k \in 1..(Len(xbins) - 1) |-> xbins[k] + xbins[k + 1]]
           my_ == SubSeq(ybins, 1, Len(ybins) - 1)
           grid == TraceGrid(img_shape, Saxis)
       IN  /\ mxbins' = mx_
           /\ mybins' = my_
           /\ IF Len(mx_) > SplineK
              THEN /\ my' = [k \in 1..Len(grid) |->
                               SplineAt(mx_, [j \in 1..Len(my_) |-> Px(my_[j])],
                                        Px(grid[k]))]
                   /\ at_pc' = "done"
                   /\ UNCHANGED at_raise
              ELSE /\ at_raise' = "UnivariateSpline:582"
                   /\ at_pc' = "error"
                   /\ UNCHANGED my
    /\ UNCHANGED <<img_shape, Saxis, fmask, nsteps_arg, nsteps, popt_tot,
                   xbins, ybins, centers, popt_bin>>
    /\ UNCHANGED <<peakVars, surfVars, mapVars, fitVars, extVars, monoVars,
                   lineVars>>

TraceNext ==
    GlobalFit \/ GlobalFitFails \/ FitBin \/ FitBinFails \/ BuildTrace

-----------------------------------------------------------------------------
(* lines_to_surface                                                        *)

\* The modes a caller may pass: the three of the docstring, and another.
Modes == {"poly", "spline", "spline2d", "cubic"}

\* Bounds of the lines_to_surface inputs: the image's rows, and how many
\* distinct samples a row can hold (none, too few for a cubic spline, enough).
NRows == 4
NSampValues == {0, 1, SplineK + 1}

\* Lines 811, 821, 841: the branches of lines_to_surface.
ModeKnown(m) == m \in {"spline2d", "spline", "poly"}

\* np.zeros_like(img): every row at the fill value 0.
ZeroRow == [fit |-> "none", row |-> 0 - 1]
ZeroMap == [r \in 0..(NRows - 1) |-> ZeroRow]

SampledRows(ns) == {r \in DOMAIN ns : ns[r] > 0}

\* Lines 825 and 851: np.arange(ycent.min(), ycent.max()).
RowsLooped(ns) == Min(SampledRows(ns))..(Max(SampledRows(ns)) - 1)

SurfaceIdle ==
    /\ ls_mode = "" /\ nsamp = <<>> /\ wfit = <<>> /\ ls_i = 0
    /\ ls_raise = "none" /\ ls_pc = "idle"

SurfaceCall ==
    /\ ls_mode \in Modes
    /\ nsamp \in [0..(NRows - 1) -> NSampValues]
    /\ wfit = <<>>
    /\ ls_i = 0
    /\ ls_raise = "none"
    /\ ls_pc = "call"

\* Lines 811-815: the 2-d spline is fitted and returned.
SurfaceSpline2d ==
    /\ ls_pc = "call"
    /\ ls_mode = "spline2d"
    /\ wfit' = [r \in 0..(NRows - 1) |-> [fit |-> "spline2d", row |-> r]]
    /\ ls_pc' = "done"
    /\ UNCHANGED <<ls_mode, nsamp, ls_i, ls_raise>>
    /\ UNCHANGED <<peakVars, traceVars, mapVars, fitVars, extVars, monoVars,
                   lineVars>>

\* Lines 821-825 and 841-851: the zero map, and the bounds of the row loop;
\* ycent.min() of no samples raises.
SurfaceRowsBegin ==
    /\ ls_pc = "call"
    /\ ls_mode \in {"spline", "poly"}
    /\ IF SampledRows(nsamp) = {}
       THEN /\ ls_raise' = "ycent.min"
            /\ ls_pc' = "error"
            /\ UNCHANGED <<wfit, ls_i>>
       ELSE /\ wfit' = ZeroMap
            /\ ls_i' = Min(SampledRows(nsamp))
            /\ ls_pc' = "rows"
            /\ UNCHANGED ls_raise
    /\ UNCHANGED <<ls_mode, nsamp>>
    /\ UNCHANGED <<peakVars, traceVars, mapVars, fitVars, extVars, monoVars,
                   lineVars>>

\* Lines 826-839: one row in spline mode.  UnivariateSpline(k=3) raises
\* unless the row has more than 3 distinct samples.
SurfaceRowSpline ==
    /\ ls_pc = "rows"
    /\ ls_mode = "spline"
    /\ ls_i \in RowsLooped(nsamp)
    /\ IF nsamp[ls_i] > SplineK
       THEN /\ wfit' = [wfit EXCEPT ![ls_i] = [fit |-> "spline", row |-> ls_i]]
            /\ ls_i' = ls_i + 1
            /\ UNCHANGED <<ls_raise, ls_pc>>
       ELSE /\ ls_raise' = "UnivariateSpline:831"
            /\ ls_pc' = "error"
            /\ UNCHANGED <<wfit, ls_i>>
    /\ UNCHANGED <<ls_mode, nsamp>>
    /\ UNCHANGED <<peakVars, traceVars, mapVars, fitVars, extVars, monoVars,
                   lineVars>>

\* Lines 852-860: one row in poly mode.
SurfaceRowPoly ==
    /\ ls_pc = "rows"
    /\ ls_mode = "poly"
    /\ ls_i \in RowsLooped(nsamp)
    /\ wfit' = [wfit EXCEPT ![ls_i] =
                   IF nsamp[ls_i] = 0 THEN ZeroRow
                   ELSE [fit |-> "poly", row |-> ls_i]]
    /\ ls_i' = ls_i + 1
    /\ UNCHANGED <<ls_mode, nsamp, ls_raise, ls_pc>>
    /\ UNCHANGED <<peakVars, traceVars, mapVars, fitVars, extVars, monoVars,
                   lineVars>>

\* Line 861 after the row loop.
SurfaceReturn ==
    /\ ls_pc = "rows"
    /\ ls_i \notin RowsLooped(nsamp)
    /\ ls_pc' = "done"
    /\ UNCHANGED <<ls_mode, nsamp, wfit, ls_i, ls_raise>>
    /\ UNCHANGED <<peakVars, traceVars, mapVars, fitVars, extVars, monoVars,
                   lineVars>>

\* Line 861 when no branch was taken: wfit was never bound, and
\* "return wfit" raises UnboundLocalError.
SurfaceUnknownMode ==
    /\ ls_pc = "call"
    /\ ~ModeKnown(ls_mode)
    /\ ls_raise' = "UnboundLocalError:861"
    /\ ls_pc' = "error"
    /\ UNCHANGED <<ls_mode, nsamp, wfit, ls_i>>
    /\ UNCHANGED <<peakVars, traceVars, mapVars, fitVars, extVars, monoVars,
                   lineVars>>

SurfaceNext ==
    \/ SurfaceSpline2d \/ SurfaceRowsBegin \/ SurfaceRowSpline
    \/ SurfaceRowPoly \/ SurfaceReturn \/ SurfaceUnknownMode

-----------------------------------------------------------------------------
(* mapwavelength                                                           *)

\* Bounds of the mapwavelength inputs: a wavemap of MapRows x MapCols
\* wavelengths, and a trace from one row below the map to one above.
MapRows == 3
MapCols == 2
WaveMaps ==
    {[r \in 1..MapRows |-> [i \in 1..MapCols |-> 10 + a * r * r + b * i]] :
        a \in {0 - 1, 2}, b \in {0, 3}}
TraceValues == (0 - 2)..(Px(MapRows - 1) + 2)

\* Line 1455 with the row below t read instead of interpolated (a mutation
\* of Interp).
InterpFloor(t, col) ==
    LET n == Len(col)
    IN  IF t <= 0 THEN 2 * col[1]
        ELSE IF t >= Px(n - 1) THEN 2 * col[n]
        ELSE 2 * At(col, t \div 2)

\* np.interp(t, np.arange(n), col) for t in half pixels, the result in
\* half wavelength units: the edge value outside [0, n-1], the value of the
\* row on a whole row, the mean of the two neighbours half way.
Interp(t, col) ==
    LET n == Len(col)
    IN  IF t <= 0 THEN 2 * col[1]
        ELSE IF t >= Px(n - 1) THEN 2 * col[n]
        ELSE IF t % 2 = 0 THEN 2 * At(col, t \div 2)
        ELSE At(col, t \div 2) + At(col, (t \div 2) + 1)

Column(map, i) == [r \in 1..Len(map) |-> map[r][i]]

\* Lines 1449 and 1452: the branches of mapwavelength.
MapModeKnown(m) == m \in {"spline2d", "poly", "spline"}

MapIdle ==
    /\ mw_mode = "" /\ trace = <<>> /\ wavemap = <<>> /\ trace_wave = <<>>
    /\ mw_raise = "none" /\ mw_pc = "idle"

MapCall ==
    /\ mw_mode \in Modes
    /\ trace \in [1..MapCols -> TraceValues]
    /\ wavemap \in WaveMaps
    /\ trace_wave = <<>>
    /\ mw_raise = "none"
    /\ mw_pc = "call"

\* Lines 1449-1450: the surface object evaluates itself along the trace.
MapSpline2d ==
    /\ mw_pc = "call"
    /\ mw_mode = "spline2d"
    /\ trace_wave' = [i \in 1..Len(trace) |-> 0]
    /\ mw_pc' = "done"
    /\ UNCHANGED <<mw_mode, trace, wavemap, mw_raise>>
    /\ UNCHANGED <<peakVars, traceVars, surfVars, fitVars, extVars, monoVars,
                   lineVars>>

\* Lines 1452-1456 and 1460: one interpolation per column.
MapInterp ==
    /\ mw_pc = "call"
    /\ mw_mode \in {"poly", "spline"}
    /\ trace_wave' = [i \in 1..Len(trace) |->
                         Interp(trace[i], Column(wavemap, i))]
    /\ mw_pc' = "done"
    /\ UNCHANGED <<mw_mode, trace, wavemap, mw_raise>>
    /\ UNCHANGED <<peakVars, traceVars, surfVars, fitVars, extVars, monoVars,
                   lineVars>>

\* Line 1460 when no branch was taken: trace_wave was never bound.
MapUnknownMode ==
    /\ mw_pc = "call"
    /\ ~MapModeKnown(mw_mode)
    /\ mw_raise' = "UnboundLocalError:1460"
    /\ mw_pc' = "error"
    /\ UNCHANGED <<mw_mode, trace, wavemap, trace_wave>>
    /\ UNCHANGED <<peakVars, traceVars, surfVars, fitVars, extVars, monoVars,
                   lineVars>>

MapNext == MapSpline2d \/ MapInterp \/ MapUnknownMode

-----------------------------------------------------------------------------
(* HeNeAr_fit                                                              *)
(*                                                                         *)
(* Pixels and wavelengths are whole numbers.  find_peaks and line_trace    *)
(* are called for their results: the peaks are a subset of the lamp's      *)
(* lines, the samples exist or not.  A polynomial is what it was fitted    *)
(* to; the wavelength it predicts for a peak is the header's linear guess  *)
(* while it is that guess, and any of FitPredictions once it is a fit.     *)

\* The header: DISPWC, DISPDW (lines 1036-1037), and len(slice).
wcen_approx == 50
disp_approx == 2
slice_len == 8

\* Bounds of the HeNeAr_fit inputs.
FitOrders == {1, 2}
Tols == {2, 4}
PeakPixels == {2, 4, 6}        \* where the 97th-percentile peaks can be
PeakPixels2 == {2, 5}          \* where the 80th-percentile peaks can be
linewave == <<46, 51, 60>>     \* the coarse line list (apohenear.dat)
linewave2 == <<46, 48, 51, 54, 60>>   \* the dense line list (henear.dat)
FitPredictions == {46, 56}
PrevFiles ==
    {<<>>, <<<<2, 46>>, <<4, 51>>>>, <<<<2, 46>>, <<4, 51>>, <<6, 54>>>>}
MaxPicks == 2
ClickXs == {46, 47, 54}
EnteredWaves == {46, 54}
Replies == {"d", "1", "2", "x"}

\* str(n) and int(s) over the replies; int raises ValueError elsewhere.
StrOf(n) == IF n = 1 THEN "1" ELSE "2"
IsInt(r) == r \in {"1", "2"}
\* int(s) forgetting the reply (a mutation of IntOf).
IntOfOne(r) == 1
IntOf(r) == IF r = "1" THEN 1 ELSE 2

\* Line 1063: the header's linear guess of the wavelength at pixel px.
WGuess(px, sg) == (px - slice_len \div 2) * disp_approx * sg + wcen_approx

Unbound == [kind |-> "unbound", centered |-> FALSE, order |-> 0, n |-> 0]

\* Line 1095: the header's guess, in pixels centered on len(slice)/2.
Guess(order) == [kind |-> "guess", centered |-> TRUE, order |-> order, n |-> 0]

\* np.polyfit(x, y, order) over n points, x centered on len(slice)/2 or not.
Fitted(centered, order, n) ==
    [kind |-> "fit", centered |-> centered, order |-> order, n |-> n]

\* np.polyfit raises TypeError on an empty x; too few points for the order
\* only draw a RankWarning, which line 1024 silences.
PolyfitRaises(x) == Len(x) = 0

\* np.polyval(coeff, px - len(slice)/2) of lines 1100 and 1333.
Predict(c, px, sg) ==
    IF c.kind = "guess" THEN {WGuess(px, sg)} ELSE FitPredictions

\* min(abs(w - lines)) and lines[argmin(abs(w - lines))].
NearestDist(w, lines) == Min({Abs(w - lines[k]) : k \in 1..Len(lines)})
Nearest(w, lines) ==
    lines[Min({k \in 1..Len(lines) : Abs(w - lines[k]) = NearestDist(w, lines)})]

\* Lines 1207-1218: the pixel of the line nearest a click at wavelength ix,
\* which the Gaussian fit and, when it fails, its initial guess both give.
Centroid(ix, sg) ==
    slice_len \div 2 + sg * ((ix - wcen_approx) \div disp_approx)

\* Lines 1110 and 1335 with <= for < (a mutation of Matches).
MatchesOrTouches(w, lines, t) == NearestDist(w, lines) <= t

\* Lines 1110 and 1335: a reference line lies within the tolerance t of w.
Matches(w, lines, t) == NearestDist(w, lines) < t

\* What find_peaks returns for the peaks at the pixels S: ordered by
\* increasing wavelength (np.unique), so by decreasing pixel on the red chip.
PeaksAt(S, sg) ==
    LET up == SetToSeq(S)
    IN  IF sg > 0 THEN up ELSE [k \in 1..Len(up) |-> up[Len(up) + 1 - k]]

\* Lines 1092 and 1327 with the peaks left in the order find_peaks gave
\* them (a mutation of Argsorts).
ArgsortsAsGiven(d) == {[k \in 1..Len(d) |-> k]}

\* Lines 1332-1333: the second pass evaluates coeff at pcent_pix2 -
\* len(slice)/2, pixels centered on the middle of the slice.
SecondPassCentered == TRUE

\* np.argsort(d) (lines 1092, 1327): a permutation that puts d in
\* non-decreasing order; the order of equal keys is the sort's choice.
Argsorts(d) ==
    {f \in [1..Len(d) -> 1..Len(d)] :
        /\ \A j, k \in 1..Len(d) : j # k => f[j] # f[k]
        /\ \A k \in 1..(Len(d) - 1) : d[f[k]] <= d[f[k + 1]]}

Column1(rows) == [k \in 1..Len(rows) |-> rows[k][1]]
Column2(rows) == [k \in 1..Len(rows) |-> rows[k][2]]

Remove(a, k) == SubSeq(a, 1, k - 1) \o SubSeq(a, k + 1, Len(a))

NoPicks == [pcent |-> <<>>, wcent |-> <<>>, ixlib |-> <<>>]

\* No click handled yet.
NoEvent == [seen |-> FALSE, good |-> FALSE, ix |-> 0, kill_d |-> <<>>,
            asked |-> FALSE, valid |-> FALSE, number |-> 0]

FitIdle ==
    /\ interac = FALSE /\ previous = <<>> /\ second_pass = FALSE
    /\ fit_order = 0 /\ tol = 0 /\ sign = 0
    /\ hf_pcent_pix = <<>> /\ hf_ss = <<>> /\ hf_i = 0 /\ hf_wcent_pix = 0
    /\ pcent = <<>> /\ wcent = <<>> /\ pcent2 = <<>> /\ wcent2 = <<>>
    /\ coeff = Unbound /\ wavefit = NoPicks /\ event = NoEvent
    /\ done = "" /\ mono = "nofit"
    /\ traced = FALSE /\ lt_pcent = <<>> /\ lt_wcent = <<>>
    /\ xcent_big = "list" /\ hf_raise = "none" /\ hf_pc = "idle"
    /\ surf_order = 0

\* The call, and lines 1021-1063.
FitCall ==
    /\ interac \in BOOLEAN
    /\ previous \in PrevFiles
    /\ second_pass \in BOOLEAN
    /\ fit_order \in FitOrders
    /\ tol \in Tols
    /\ sign \in {0 - 1, 1}
    /\ hf_pcent_pix = <<>> /\ hf_ss = <<>> /\ hf_i = 0 /\ hf_wcent_pix = 0
    /\ pcent = <<>> /\ wcent = <<>> /\ pcent2 = <<>> /\ wcent2 = <<>>
    /\ coeff = Unbound /\ wavefit = NoPicks /\ event = NoEvent
    /\ done = "" /\ mono = "nofit"
    /\ traced = FALSE /\ lt_pcent = <<>> /\ lt_wcent = <<>>
    /\ xcent_big = "list" /\ hf_raise = "none" /\ hf_pc = "identify"
    /\ surf_order = 0

\* Raising `what` out of HeNeAr_fit.
Raise(what) == hf_raise' = what /\ hf_pc' = "error"

\* Lines 1069-1095: automatic identification begins: the peaks, their
\* order of visit, and the header's guess as the first polynomial.
AutoFindPeaks ==
    /\ hf_pc = "identify" /\ ~interac /\ previous = <<>>
    /\ \E S \in SUBSET PeakPixels :
         LET pp == PeaksAt(S, sign)
             d  == [k \in 1..Len(pp) |-> Abs(WGuess(pp[k], sign) - wcen_approx)]
         IN  /\ hf_pcent_pix' = pp
             /\ hf_ss' \in Argsorts(d)
    /\ coeff' = Guess(fit_order)
    /\ hf_i' = 0
    /\ hf_pc' = "auto_match"
    /\ UNCHANGED <<interac, previous, second_pass, fit_order, tol, sign,
                   pcent, wcent, pcent2, wcent2, wavefit, done, traced,
                   lt_pcent, lt_wcent, xcent_big, hf_raise>>
    /\ UNCHANGED <<mono, event>>
    /\ UNCHANGED hf_wcent_pix
    /\ UNCHANGED surf_order
    /\ UNCHANGED <<peakVars, traceVars, surfVars, mapVars, extVars, monoVars,
                   lineVars>>

\* Lines 1097-1119: one pass of the matching loop.
AutoMatch ==
    /\ hf_pc = "auto_match"
    /\ hf_i < Len(hf_pcent_pix)
    /\ LET px == hf_pcent_pix[hf_ss[hf_i + 1]]
       IN  \E w \in Predict(coeff, px, sign) :
             /\ hf_wcent_pix' = w
             /\ IF Matches(w, linewave, tol)
                THEN /\ pcent' = Append(pcent, px)
                     /\ wcent' = Append(wcent, Nearest(w, linewave))
                     /\ coeff' = IF Len(pcent) + 1 > fit_order
                                 THEN Fitted(TRUE, fit_order, Len(pcent) + 1)
                                 ELSE coeff
                     /\ mono' = IF Len(pcent) + 1 > fit_order
                                THEN "unchecked" ELSE mono
                ELSE UNCHANGED <<pcent, wcent, coeff, mono>>
    /\ hf_i' = hf_i + 1
    /\ UNCHANGED <<interac, previous, second_pass, fit_order, tol, sign,
                   hf_pcent_pix, hf_ss, pcent2, wcent2, wavefit, done, traced,
                   lt_pcent, lt_wcent, xcent_big, hf_raise, hf_pc>>
    /\ UNCHANGED event
    /\ UNCHANGED surf_order
    /\ UNCHANGED <<peakVars, traceVars, surfVars, mapVars, extVars, monoVars,
                   lineVars>>

\* Lines 1125-1133: the loop is over; the pairs are saved.
AutoDone ==
    /\ hf_pc = "auto_match"
    /\ hf_i = Len(hf_pcent_pix)
    /\ hf_pc' = "pass2"
    /\ UNCHANGED <<interac, previous, second_pass, fit_order, tol, sign,
                   hf_pcent_pix, hf_ss, hf_i, pcent, wcent, pcent2, wcent2,
                   coeff, wavefit, done, traced, lt_pcent, lt_wcent,
                   xcent_big, hf_raise>>
    /\ UNCHANGED <<mono, event>>
    /\ UNCHANGED hf_wcent_pix
    /\ UNCHANGED surf_order
    /\ UNCHANGED <<peakVars, traceVars, surfVars, mapVars, extVars, monoVars,
                   lineVars>>

\* Lines 1134-1136: automatic mode with a previous file: only pcent and
\* wcent are loaded; coeff is bound nowhere on this path.
LoadPreviousAuto ==
    /\ hf_pc = "identify" /\ ~interac /\ previous # <<>>
    /\ pcent' = Column1(previous)
    /\ wcent' = Column2(previous)
    /\ hf_pc' = "pass2"
    /\ UNCHANGED <<interac, previous, second_pass, fit_order, tol, sign,
                   hf_pcent_pix, hf_ss, hf_i, pcent2, wcent2, coeff, wavefit,
                   done, traced, lt_pcent, lt_wcent, xcent_big, hf_raise>>
    /\ UNCHANGED <<mono, event>>
    /\ UNCHANGED hf_wcent_pix
    /\ UNCHANGED surf_order
    /\ UNCHANGED <<peakVars, traceVars, surfVars, mapVars, extVars, monoVars,
                   lineVars>>

\* Lines 1264-1266: interactive mode with a previous file.
LoadPreviousInterac ==
    /\ hf_pc = "identify" /\ interac /\ previous # <<>>
    /\ pcent' = Column1(previous)
    /\ wcent' = Column2(previous)
    /\ hf_pc' = "fit1"
    /\ UNCHANGED <<interac, previous, second_pass, fit_order, tol, sign,
                   hf_pcent_pix, hf_ss, hf_i, pcent2, wcent2, coeff, wavefit,
                   done, traced, lt_pcent, lt_wcent, xcent_big, hf_raise>>
    /\ UNCHANGED <<mono, event>>
    /\ UNCHANGED hf_wcent_pix
    /\ UNCHANGED surf_order
    /\ UNCHANGED <<peakVars, traceVars, surfVars, mapVars, extVars, monoVars,
                   lineVars>>

\* Lines 1142-1243: the InteracWave window opens with no picks.
InteracBegin ==
    /\ hf_pc = "identify" /\ interac /\ previous = <<>>
    /\ wavefit' = NoPicks
    /\ hf_pc' = "clicking"
    /\ UNCHANGED <<interac, previous, second_pass, fit_order, tol, sign,
                   hf_pcent_pix, hf_ss, hf_i, pcent, wcent, pcent2, wcent2,
                   coeff, done, traced, lt_pcent, lt_wcent, xcent_big,
                   hf_raise>>
    /\ UNCHANGED <<mono, event>>
    /\ UNCHANGED hf_wcent_pix
    /\ UNCHANGED surf_order
    /\ UNCHANGED <<peakVars, traceVars, surfVars, mapVars, extVars, monoVars,
                   lineVars>>

\* Lines 1200-1202 with another index for wcent (a mutation of Deleted).
DeletedApart(w, kill) ==
    [pcent |-> Remove(w.pcent, kill),
     wcent |-> Remove(w.wcent, 1),
     ixlib |-> Remove(w.ixlib, kill)]

\* Lines 1199-1202: the pick at position kill deleted from the three lists.
Deleted(w, kill) ==
    [pcent |-> Remove(w.pcent, kill),
     wcent |-> Remove(w.wcent, kill),
     ixlib |-> Remove(w.ixlib, kill)]

\* Lines 1221-1229 with the appends ahead of float() (a mutation of
\* Entered).
EnteredAnyway(w, c, number, ix, valid) ==
    [pcent |-> Append(w.pcent, c),
     wcent |-> Append(w.wcent, number),
     ixlib |-> Append(w.ixlib, ix)]

\* Lines 1221-1229: the lists after the reply to the wavelength prompt; a
\* reply float() rejects raises ValueError before the first append.
Entered(w, c, number, ix, valid) ==
    IF valid
    THEN [pcent |-> Append(w.pcent, c),
          wcent |-> Append(w.wcent, number),
          ixlib |-> Append(w.ixlib, ix)]
    ELSE w

\* A click with the toolbar in use, off the axes, or failing line 1179.
BadClick == [NoEvent EXCEPT !.seen = TRUE]

\* Lines 1171-1239: one click in the window.  The inputs are the click
\* (where; enough: more than 4 pixels lie nearby), the replies to the
\* overlap prompt of line 1196, and the reply to the wavelength prompt of
\* line 1222 (valid: float() accepts it).
OnClick ==
    /\ hf_pc = "clicking"
    /\ \/ event' = BadClick /\ UNCHANGED wavefit
       \/ \E ix \in ClickXs,
             kill_d \in [1..Len(wavefit.pcent) -> {"d", ""}] :
            LET close == {k \in 1..Len(wavefit.pcent) :
                             Abs(wavefit.ixlib[k] - ix) < tol}
                dels  == {k \in close : kill_d[k] = "d"}
                kill  == IF dels = {} THEN 0 ELSE Max(dels)
                ev    == [seen |-> TRUE, good |-> TRUE, ix |-> ix,
                          kill_d |-> kill_d, asked |-> FALSE,
                          valid |-> FALSE, number |-> 0]
            IN  /\ \A k \in 1..Len(wavefit.pcent) :
                      k \notin close => kill_d[k] = ""
                /\ IF kill # 0
                   THEN /\ wavefit' = Deleted(wavefit, kill)
                        /\ event' = ev
                   ELSE \E enough \in BOOLEAN, valid \in BOOLEAN,
                           number \in EnteredWaves \cup {0} :
                          /\ number = 0 <=> ~(enough /\ valid)
                          /\ valid => (enough /\ Len(wavefit.pcent) < MaxPicks)
                          /\ wavefit' = IF enough
                                        THEN Entered(wavefit, Centroid(ix, sign),
                                                     number, ix, valid)
                                        ELSE wavefit
                          /\ event' = [ev EXCEPT !.asked = enough,
                                                 !.valid = valid,
                                                 !.number = number]
    /\ UNCHANGED <<interac, previous, second_pass, fit_order, tol, sign,
                   hf_pcent_pix, hf_ss, hf_i, pcent, wcent, pcent2, wcent2,
                   coeff, done, traced, lt_pcent, lt_wcent, xcent_big,
                   hf_raise, hf_pc>>
    /\ UNCHANGED mono
    /\ UNCHANGED hf_wcent_pix
    /\ UNCHANGED surf_order
    /\ UNCHANGED <<peakVars, traceVars, surfVars, mapVars, extVars, monoVars,
                   lineVars>>

\* Lines 1243-1261: the window is closed, no click is left to handle; the
\* picks become pcent, wcent.
CloseWindow ==
    /\ hf_pc = "clicking"
    /\ pcent' = wavefit.pcent
    /\ wcent' = wavefit.wcent
    /\ event' = NoEvent
    /\ hf_pc' = "fit1"
    /\ UNCHANGED <<interac, previous, second_pass, fit_order, tol, sign,
                   hf_pcent_pix, hf_ss, hf_i, pcent2, wcent2, coeff, wavefit,
                   done, traced, lt_pcent, lt_wcent, xcent_big, hf_raise>>
    /\ UNCHANGED mono
    /\ UNCHANGED hf_wcent_pix
    /\ UNCHANGED surf_order
    /\ UNCHANGED <<peakVars, traceVars, surfVars, mapVars, extVars, monoVars,
                   lineVars>>

\* Lines 1274-1278: the interactive first fit, in uncentered pixels.
FirstFit ==
    /\ hf_pc = "fit1"
    /\ IF PolyfitRaises(pcent)
       THEN Raise("polyfit:1275") /\ UNCHANGED <<coeff, done, mono>>
       ELSE /\ coeff' = Fitted(FALSE, fit_order, Len(pcent))
            /\ mono' = "unchecked"
            /\ done' = StrOf(fit_order)
            /\ hf_pc' = "order1"
            /\ UNCHANGED hf_raise
    /\ UNCHANGED <<interac, previous, second_pass, fit_order, tol, sign,
                   hf_pcent_pix, hf_ss, hf_i, pcent, wcent, pcent2, wcent2,
                   wavefit, traced, lt_pcent, lt_wcent, xcent_big>>
    /\ UNCHANGED event
    /\ UNCHANGED hf_wcent_pix
    /\ UNCHANGED surf_order
    /\ UNCHANGED <<peakVars, traceVars, surfVars, mapVars, extVars, monoVars,
                   lineVars>>

\* One trip through a `while (done != 'd')` loop over the pairs x: the
\* order is read from the last reply, the fit redone, _CheckMono called on
\* its wtemp (lines 1304, 1403), the next reply read.
OrderLoop(x, line) ==
    /\ done # "d"
    /\ IF ~IsInt(done)
       THEN Raise(line) /\ UNCHANGED <<fit_order, coeff, done, mono>>
       ELSE /\ fit_order' = IntOf(done)
            /\ coeff' = Fitted(FALSE, IntOf(done), Len(x))
            /\ mono' = "checked"
            /\ done' \in Replies
            /\ UNCHANGED <<hf_raise, hf_pc>>
    /\ UNCHANGED <<interac, previous, second_pass, tol, sign,
                   hf_pcent_pix, hf_ss, hf_i, pcent, wcent, pcent2, wcent2,
                   wavefit, traced, lt_pcent, lt_wcent, xcent_big>>
    /\ UNCHANGED event
    /\ UNCHANGED hf_wcent_pix
    /\ UNCHANGED surf_order
    /\ UNCHANGED <<peakVars, traceVars, surfVars, mapVars, extVars, monoVars,
                   lineVars>>

\* The loop is left on the reply "d".
OrderLoopExit(next) ==
    /\ done = "d"
    /\ hf_pc' = next
    /\ UNCHANGED <<interac, previous, second_pass, fit_order, tol, sign,
                   hf_pcent_pix, hf_ss, hf_i, pcent, wcent, pcent2, wcent2,
                   coeff, wavefit, done, traced, lt_pcent, lt_wcent,
                   xcent_big, hf_raise>>
    /\ UNCHANGED <<mono, event>>
    /\ UNCHANGED hf_wcent_pix
    /\ UNCHANGED surf_order
    /\ UNCHANGED <<peakVars, traceVars, surfVars, mapVars, extVars, monoVars,
                   lineVars>>

\* Lines 1279-1307.
OrderLoop1 == hf_pc = "order1" /\ OrderLoop(pcent, "int:1280")
OrderLoop1Exit == hf_pc = "order1" /\ OrderLoopExit("pass2")

\* Line 1314: no second pass.
SkipSecondPass ==
    /\ hf_pc = "pass2" /\ ~second_pass
    /\ hf_pc' = "trace"
    /\ UNCHANGED <<interac, previous, second_pass, fit_order, tol, sign,
                   hf_pcent_pix, hf_ss, hf_i, pcent, wcent, pcent2, wcent2,
                   coeff, wavefit, done, traced, lt_pcent, lt_wcent,
                   xcent_big, hf_raise>>
    /\ UNCHANGED <<mono, event>>
    /\ UNCHANGED hf_wcent_pix
    /\ UNCHANGED surf_order
    /\ UNCHANGED <<peakVars, traceVars, surfVars, mapVars, extVars, monoVars,
                   lineVars>>

\* Lines 1314-1327: the second pass begins: the peaks above the looser
\* threshold and their order of visit, by the wavelengths of the first
\* pass's solution.
SecondFindPeaks ==
    /\ hf_pc = "pass2" /\ second_pass
    /\ \E S \in SUBSET PeakPixels2 :
         LET pp == PeaksAt(S, sign)
             d  == [k \in 1..Len(pp) |-> Abs(WGuess(pp[k], sign) - wcen_approx)]
         IN  /\ hf_pcent_pix' = pp
             /\ hf_ss' \in IF coeff.kind = "fit"
                        THEN Argsorts([k \in 1..Len(pp) |-> 0])
                        ELSE Argsorts(d)
    /\ pcent2' = <<>>
    /\ wcent2' = <<>>
    /\ hf_i' = 0
    /\ hf_pc' = "match2"
    /\ UNCHANGED <<interac, previous, second_pass, fit_order, tol, sign,
                   pcent, wcent, coeff, wavefit, done, traced, lt_pcent,
                   lt_wcent, xcent_big, hf_raise>>
    /\ UNCHANGED <<mono, event>>
    /\ UNCHANGED hf_wcent_pix
    /\ UNCHANGED surf_order
    /\ UNCHANGED <<peakVars, traceVars, surfVars, mapVars, extVars, monoVars,
                   lineVars>>

\* Lines 1331-1338: one pass of the second matching loop; coeff is read.
SecondMatch ==
    /\ hf_pc = "match2"
    /\ hf_i < Len(hf_pcent_pix)
    /\ IF coeff.kind = "unbound"
       THEN /\ Raise("NameError:1333")
            /\ UNCHANGED <<pcent2, wcent2, hf_i, hf_wcent_pix>>
       ELSE /\ LET px == hf_pcent_pix[hf_ss[hf_i + 1]]
               IN  \E w \in Predict(coeff, px, sign) :
                     /\ hf_wcent_pix' = w
                     /\ IF Matches(w, linewave2, tol)
                        THEN /\ pcent2' = Append(pcent2, px)
                             /\ wcent2' = Append(wcent2, Nearest(w, linewave2))
                        ELSE UNCHANGED <<pcent2, wcent2>>
            /\ hf_i' = hf_i + 1
            /\ UNCHANGED <<hf_raise, hf_pc>>
    /\ UNCHANGED <<interac, previous, second_pass, fit_order, tol, sign,
                   hf_pcent_pix, hf_ss, pcent, wcent, coeff, wavefit, done,
                   traced, lt_pcent, lt_wcent, xcent_big>>
    /\ UNCHANGED <<mono, event>>
    /\ UNCHANGED surf_order
    /\ UNCHANGED <<peakVars, traceVars, surfVars, mapVars, extVars, monoVars,
                   lineVars>>

\* Lines 1362-1377: the loop is over: coeff is read once more, the
\* second-pass pairs are saved and fitted.
SecondFit ==
    /\ hf_pc = "match2"
    /\ hf_i = Len(hf_pcent_pix)
    /\ IF coeff.kind = "unbound"
       THEN Raise("NameError:1362") /\ UNCHANGED <<coeff, done, mono>>
       ELSE IF PolyfitRaises(pcent2)
       THEN Raise("polyfit:1371") /\ UNCHANGED <<coeff, done, mono>>
       ELSE /\ coeff' = Fitted(FALSE, fit_order, Len(pcent2))
            /\ mono' = "unchecked"
            /\ IF interac
               THEN done' = StrOf(fit_order) /\ hf_pc' = "order2"
               ELSE UNCHANGED done /\ hf_pc' = "trace"
            /\ UNCHANGED hf_raise
    /\ UNCHANGED <<interac, previous, second_pass, fit_order, tol, sign,
                   hf_pcent_pix, hf_ss, hf_i, pcent, wcent, pcent2, wcent2,
                   wavefit, traced, lt_pcent, lt_wcent, xcent_big>>
    /\ UNCHANGED event
    /\ UNCHANGED hf_wcent_pix
    /\ UNCHANGED surf_order
    /\ UNCHANGED <<peakVars, traceVars, surfVars, mapVars, extVars, monoVars,
                   lineVars>>

\* Lines 1378-1406.
OrderLoop2 == hf_pc = "order2" /\ OrderLoop(pcent2, "int:1379")
OrderLoop2Exit == hf_pc = "order2" /\ OrderLoopExit("trace")

\* Line 1409: line_trace(img, pcent, wcent).  It returns the lists it
\* started with when no line gave a sample, arrays otherwise.
LineTrace ==
    /\ hf_pc = "trace"
    /\ traced' = TRUE
    /\ lt_pcent' = pcent
    /\ lt_wcent' = wcent
    /\ xcent_big' \in IF Len(pcent) = 0 THEN {"list"} ELSE {"list", "array"}
    /\ hf_pc' = "surface"
    /\ UNCHANGED <<interac, previous, second_pass, fit_order, tol, sign,
                   hf_pcent_pix, hf_ss, hf_i, pcent, wcent, pcent2, wcent2,
                   coeff, wavefit, done, hf_raise>>
    /\ UNCHANGED <<mono, event>>
    /\ UNCHANGED hf_wcent_pix
    /\ UNCHANGED surf_order
    /\ UNCHANGED <<peakVars, traceVars, surfVars, mapVars, extVars, monoVars,
                   lineVars>>

\* Lines 1419-1422: lines_to_surface, and the return of its result.
SurfaceFit ==
    /\ hf_pc = "surface"
    /\ surf_order' = fit_order
    /\ IF xcent_big = "list"
       THEN Raise("lines_to_surface:1419")
       ELSE hf_pc' = "done" /\ UNCHANGED hf_raise
    /\ UNCHANGED <<interac, previous, second_pass, fit_order, tol, sign,
                   hf_pcent_pix, hf_ss, hf_i, pcent, wcent, pcent2, wcent2,
                   coeff, wavefit, done, traced, lt_pcent, lt_wcent,
                   xcent_big>>
    /\ UNCHANGED <<mono, event>>
    /\ UNCHANGED hf_wcent_pix
    /\ UNCHANGED <<peakVars, traceVars, surfVars, mapVars, extVars, monoVars,
                   lineVars>>

FitNext ==
    \/ AutoFindPeaks \/ AutoMatch \/ AutoDone
    \/ LoadPreviousAuto \/ LoadPreviousInterac
    \/ InteracBegin \/ OnClick \/ CloseWindow
    \/ FirstFit \/ OrderLoop1 \/ OrderLoop1Exit
    \/ SkipSecondPass \/ SecondFindPeaks \/ SecondMatch \/ SecondFit
    \/ OrderLoop2 \/ OrderLoop2Exit
    \/ LineTrace \/ SurfaceFit

-----------------------------------------------------------------------------
(* ap_extract                                                              *)
(*                                                                         *)
(* The trace is in half pixels, the widths in whole pixels, the image in   *)
(* whole counts.  The loop of line 922 appends to onedspec, skysubflux and *)
(* fluxerr: the column being done is i = Len(onedspec).                    *)

\* Bounds of the ap_extract inputs.
ExRows == 7
ExCols == 2
ExImages ==
    {[r \in 1..ExRows |-> [i \in 1..ExCols |-> 1 + a * r * r + b * i]] :
        a \in {1, 2}, b \in {0, 3}}
ExTraces ==
    {[i \in 1..ExCols |-> t0 + d * (i - 1)] :
        t0 \in 0..Px(ExRows - 1), d \in {0 - 1, 0, 1}}
ApWidths == {1, 2}
SkySeps == {0, 1}
SkyWidths == {1, 2}
SkyDegs == {0, 1}
CoaddNs == {1, 2}
SkyFitSums == {0, 9}

RECURSIVE SumSeq(_)
SumSeq(a) == IF a = <<>> THEN 0 ELSE Head(a) + SumSeq(Tail(a))

\* Lines 925-928: widthup, in half pixels, for the trace value t.
WidthUp(t, ap, rows) ==
    IF t + Px(ap) > Px(rows) THEN Px(rows) - t - Px(1) ELSE Px(ap)

\* Lines 926-930: widthdn, in half pixels.
WidthDn(t, ap) == IF t - Px(ap) < 0 THEN t - Px(1) ELSE Px(ap)

\* img[a:b, i].sum() for 0 <= a: the rows a .. b-1 that the image has.
SliceSum(col, a, b) ==
    SumSeq([k \in 1..(Min({b, Len(col)}) - a) |-> At(col, a + k - 1)])

\* Line 933 with the stop of the slice one row early (a mutation of
\* ApertureSum).
ApertureSumShort(col, t, ap) ==
    SliceSum(col, ToInt(t - WidthDn(t, ap)),
                  ToInt(t + WidthUp(t, ap, Len(col))))

\* Line 933: the counts summed into column i's flux.
ApertureSum(col, t, ap) ==
    SliceSum(col, ToInt(t - WidthDn(t, ap)),
                  ToInt(t + WidthUp(t, ap, Len(col)) + Px(1)))

\* Lines 936-938: the row indices y of the two sky windows.
SkyRows(t, ap, sep, w) ==
    LET itrace == ToInt(t)
    IN  [k \in 1..w |-> itrace - ap - sep - w + k - 1]
        \o [k \in 1..w |-> itrace + ap + sep + k]

\* Line 940: img[y, i].  An index below zero counts from the last row; an
\* index outside -rows .. rows-1 raises IndexError.
IndexOk(k, rows) == (0 - rows) <= k /\ k < rows
Wrapped(k, rows) == IF k < 0 THEN rows + k ELSE k
SkyPixels(col, y) == [k \in 1..Len(y) |-> At(col, Wrapped(y[k], Len(col)))]

ExtractIdle ==
    /\ ex_img = <<>> /\ ex_trace = <<>>
    /\ apwidth = 0 /\ skysep = 0 /\ skywidth = 0 /\ skydeg = 0 /\ coaddN = 0
    /\ onedspec = <<>> /\ skysubflux = <<>> /\ fluxerr = <<>>
    /\ ex_raise = "none" /\ ex_pc = "idle"

\* The call, and lines 918-920.
ExtractCall ==
    /\ ex_img \in ExImages
    /\ ex_trace \in {tr \in ExTraces :
                       \A i \in 1..ExCols : 0 <= tr[i] /\ tr[i] <= Px(ExRows - 1)}
    /\ apwidth \in ApWidths
    /\ skysep \in SkySeps
    /\ skywidth \in SkyWidths
    /\ skydeg \in SkyDegs
    /\ coaddN \in CoaddNs
    /\ onedspec = <<>> /\ skysubflux = <<>> /\ fluxerr = <<>>
    /\ ex_raise = "none" /\ ex_pc = "loop"

\* Lines 922-959: one pass of the loop, for column i.
ExtractColumn ==
    /\ ex_pc = "loop"
    /\ Len(onedspec) < Len(ex_trace)
    /\ LET i   == Len(onedspec) + 1
           col == Column(ex_img, i)
           t   == ex_trace[i]
           y   == SkyRows(t, apwidth, skysep, skywidth)
           z   == SkyPixels(col, y)
           f   == ApertureSum(col, t, apwidth)
       IN  IF \E k \in 1..Len(y) : ~IndexOk(y[k], Len(col))
           THEN /\ ex_raise' = "IndexError:940"
                /\ ex_pc' = "error"
                /\ UNCHANGED <<onedspec, skysubflux, fluxerr>>
           ELSE /\ onedspec' = Append(onedspec, f)
                /\ \E sky \in IF skydeg > 0
                              THEN {[num |-> v, den |-> 1] : v \in SkyFitSums}
                              ELSE {[num |-> SumSeq(z) * (apwidth * 2 + 1),
                                     den |-> Len(y)]} :
                     /\ skysubflux' = Append(skysubflux, sky)
                     /\ \E e \in IF f * sky.den >= sky.num
                                 THEN {"finite"} ELSE {"finite", "nan"} :
                          fluxerr' = Append(fluxerr, e)
                /\ UNCHANGED <<ex_raise, ex_pc>>
    /\ UNCHANGED <<ex_img, ex_trace, apwidth, skysep, skywidth, skydeg, coaddN>>
    /\ UNCHANGED <<peakVars, traceVars, surfVars, mapVars, fitVars, monoVars,
                   lineVars>>

\* Line 961.
ExtractReturn ==
    /\ ex_pc = "loop"
    /\ Len(onedspec) = Len(ex_trace)
    /\ ex_pc' = "done"
    /\ UNCHANGED <<ex_img, ex_trace, apwidth, skysep, skywidth, skydeg, coaddN,
                   onedspec, skysubflux, fluxerr, ex_raise>>
    /\ UNCHANGED <<peakVars, traceVars, surfVars, mapVars, fitVars, monoVars,
                   lineVars>>

ExtractNext == ExtractColumn \/ ExtractReturn

-----------------------------------------------------------------------------
(* _CheckMono                                                              *)

\* Bounds of the _CheckMono input: arrays of up to MonoLen values.
MonoLen == 4
MonoValues == {0, 1, 2, NaN}

\* x < y and x > y on floats: False when either side is NaN.
Less(x, y) == IsFinite(x) /\ IsFinite(y) /\ x < y
Greater(x, y) == IsFinite(x) /\ IsFinite(y) /\ x > y

\* Line 116 with <= for < (a mutation of AllUp).
AllUpOrEqual(w) == \A k \in 1..(Len(w) - 1) : ~Greater(w[k], w[k + 1])

\* Line 116: all(x<y for x, y in zip(wave, wave[1:])).
AllUp(w) == \A k \in 1..(Len(w) - 1) : Less(w[k], w[k + 1])

\* Line 119: all(x>y for x, y in zip(wave, wave[1:])).
AllDn(w) == \A k \in 1..(Len(w) - 1) : Greater(w[k], w[k + 1])

MonoIdle ==
    /\ cm_wave = <<>> /\ cm_up = FALSE /\ cm_dn = FALSE /\ warned = FALSE
    /\ cm_pc = "idle"

MonoCall ==
    /\ cm_wave \in UNION {[1..n -> MonoValues] : n \in 0..MonoLen}
    /\ cm_up = FALSE /\ cm_dn = FALSE /\ warned = FALSE
    /\ cm_pc = "call"

\* Lines 115-124.
CheckMono ==
    /\ cm_pc = "call"
    /\ cm_up' = AllUp(cm_wave)
    /\ cm_dn' = AllDn(cm_wave)
    /\ warned' = (AllUp(cm_wave) = FALSE /\ AllDn(cm_wave) = FALSE)
    /\ cm_pc' = "done"
    /\ UNCHANGED cm_wave
    /\ UNCHANGED <<peakVars, traceVars, surfVars, mapVars, fitVars, extVars,
                   lineVars>>

MonoNext == CheckMono

-----------------------------------------------------------------------------
(* line_trace                                                              *)
(*                                                                         *)
(* Pixels are whole numbers.  curve_fit is modelled by its outcomes: it    *)
(* converges on a center, or raises RuntimeError.                          *)

\* Line 644.
ybuf == 10

\* Bounds of the line_trace inputs: the image, the lines, the window.
LtRows == 24
LtCols == 12
LinePcents == {<<5>>, <<5, 7>>, <<1>>}
MaxBends == {2, 3}

\* The wavelength identified for the line at pixel px.
LineWave(px) == 40 + px

\* Lines 646-647: the rows at and above the middle, going up.
Ydata1(rows) == SetToSeq({j \in 0..(rows - 1) : 2 * j >= rows /\ j < rows - ybuf})

\* Lines 648-649: the rows below the middle, going down.
Ydata2(rows) ==
    LET up == SetToSeq({j \in 0..(rows - 1) : 2 * j < rows /\ j > ybuf})
    IN  [k \in 1..Len(up) |-> up[Len(up) + 1 - k]]

\* Lines 660, 664 with the last column included (a mutation of Xline).
XlineInclusive(pc, mb) == <<pc - mb, pc + mb + 1>>

\* Lines 660, 664, 684: the columns summed and fitted for line i at every
\* row: maxbend to either side of the line's pixel on the slice.
Xline(pc, mb) == <<pc - mb, pc + mb>>

\* The slice of lines 664 and 684 has the length of xline only when the
\* window lies on the image: a negative first column leaves it empty and
\* np.nanmax raises ValueError, a last column beyond the image leaves it
\* short and curve_fit raises ValueError.
WindowOnImage(xl, cols) == xl[1] >= 0 /\ xl[2] <= cols

\* Line 673 with the image edges allowed (a mutation of CenterOk).
CenterOkInclusive(c, cols) == c >= 0 /\ c <= cols

\* Lines 673 and 693: the fitted center lies on the image.
CenterOk(c, cols) == c > 0 /\ c < cols

\* The centers a converged fit started at seed can return.
FitCenters2(seed, cols) == {seed + 1, 0, cols}

NoFit == [ok |-> FALSE, c |-> 0, p0 |-> 0]

LinesIdle ==
    /\ ln_shape = <<0, 0>> /\ ln_pcent = <<>> /\ ln_wcent = <<>>
    /\ maxbend = 0 /\ ln_i = 0 /\ ln_dir = "up" /\ ln_k = 0
    /\ xline = <<0, 0>> /\ cguess = 0 /\ ln_popt = NoFit
    /\ ln_xcent = <<>> /\ ln_ycent = <<>> /\ ln_wcent_big = <<>>
    /\ ln_raise = "none" /\ ln_pc = "idle"

\* The call, and lines 634-656.
LinesCall ==
    /\ ln_shape = <<LtRows, LtCols>>
    /\ ln_pcent \in LinePcents
    /\ ln_wcent = [k \in 1..Len(ln_pcent) |-> LineWave(ln_pcent[k])]
    /\ maxbend \in MaxBends
    /\ ln_i = 0 /\ ln_dir = "up" /\ ln_k = 0
    /\ xline = <<0, 0>> /\ cguess = 0 /\ ln_popt = NoFit
    /\ ln_xcent = <<>> /\ ln_ycent = <<>> /\ ln_wcent_big = <<>>
    /\ ln_raise = "none" /\ ln_pc = "walk"

\* The rows of the loop line i is in.
RowsOf(dir) == IF dir = "up" THEN Ydata1(ln_shape[1]) ELSE Ydata2(ln_shape[1])

\* Lines 664-680 and 684-700: one row of one line: the window, the seed,
\* the fit, and what is kept of it.
TraceRow ==
    /\ ln_pc = "walk"
    /\ ln_i < Len(ln_pcent)
    /\ ln_k < Len(RowsOf(ln_dir))
    /\ LET j    == RowsOf(ln_dir)[ln_k + 1]
           pc   == At(ln_pcent, ln_i)
           xl   == Xline(pc, maxbend)
           seed == IF ln_k = 0 THEN pc ELSE cguess
       IN  /\ xline' = xl
           /\ IF ~WindowOnImage(xl, ln_shape[2])
              THEN /\ ln_raise' = IF xl[1] < 0 THEN "ValueError:669"
                                                 ELSE "ValueError:671"
                   /\ ln_pc' = "error"
                   /\ UNCHANGED <<ln_k, cguess, ln_popt, ln_xcent, ln_ycent,
                                  ln_wcent_big>>
              ELSE /\ \/ \E c \in FitCenters2(seed, ln_shape[2]) :
                            /\ ln_popt' = [ok |-> TRUE, c |-> c, p0 |-> seed]
                            /\ IF CenterOk(c, ln_shape[2])
                               THEN /\ cguess' = c
                                    /\ ln_xcent' = Append(ln_xcent, c)
                                    /\ ln_ycent' = Append(ln_ycent, j)
                                    /\ ln_wcent_big' = Append(ln_wcent_big,
                                                         At(ln_wcent, ln_i))
                               ELSE /\ cguess' = seed
                                    /\ UNCHANGED <<ln_xcent, ln_ycent,
                                                   ln_wcent_big>>
                      \/ /\ ln_popt' = [ok |-> FALSE, c |-> seed, p0 |-> seed]
                         /\ cguess' = seed
                         /\ UNCHANGED <<ln_xcent, ln_ycent, ln_wcent_big>>
                   /\ ln_k' = ln_k + 1
                   /\ UNCHANGED <<ln_raise, ln_pc>>
    /\ UNCHANGED <<ln_shape, ln_pcent, ln_wcent, maxbend, ln_i, ln_dir>>
    /\ UNCHANGED <<peakVars, traceVars, surfVars, mapVars, fitVars, extVars,
                   monoVars>>

\* Lines 663 and 683 at the end of their rows: on to the downward loop, or
\* to the next line.
TraceTurn ==
    /\ ln_pc = "walk"
    /\ ln_i < Len(ln_pcent)
    /\ ln_k = Len(RowsOf(ln_dir))
    /\ IF ln_dir = "up"
       THEN ln_dir' = "down" /\ UNCHANGED ln_i
       ELSE ln_dir' = "up" /\ ln_i' = ln_i + 1
    /\ ln_k' = 0
    /\ UNCHANGED <<ln_shape, ln_pcent, ln_wcent, maxbend, xline, cguess,
                   ln_popt, ln_xcent, ln_ycent, ln_wcent_big, ln_raise, ln_pc>>
    /\ UNCHANGED <<peakVars, traceVars, surfVars, mapVars, fitVars, extVars,
                   monoVars>>

\* Line 710.
TraceLinesReturn ==
    /\ ln_pc = "walk"
    /\ ln_i = Len(ln_pcent)
    /\ ln_pc' = "done"
    /\ UNCHANGED <<ln_shape, ln_pcent, ln_wcent, maxbend, ln_i, ln_dir, ln_k,
                   xline, cguess, ln_popt, ln_xcent, ln_ycent, ln_wcent_big,
                   ln_raise>>
    /\ UNCHANGED <<peakVars, traceVars, surfVars, mapVars, fitVars, extVars,
                   monoVars>>

LinesNext == TraceRow \/ TraceTurn \/ TraceLinesReturn

-----------------------------------------------------------------------------
(* The specifications.                                                     *)

PeaksInit ==
    /\ PeaksCall /\ TraceIdle /\ SurfaceIdle /\ MapIdle /\ FitIdle
    /\ ExtractIdle /\ MonoIdle /\ LinesIdle
SpecPeaks == PeaksInit /\ [][PeaksNext]_vars

TraceInit ==
    /\ TraceCall /\ PeaksIdle /\ SurfaceIdle /\ MapIdle /\ FitIdle
    /\ ExtractIdle /\ MonoIdle /\ LinesIdle
SpecTrace == TraceInit /\ [][TraceNext]_vars

\* Either function is called, once.
SurfaceInit ==
    /\ PeaksIdle /\ TraceIdle /\ FitIdle /\ ExtractIdle /\ MonoIdle
    /\ LinesIdle
    /\ \/ SurfaceCall /\ MapIdle
       \/ SurfaceIdle /\ MapCall
SurfaceOrMapNext == SurfaceNext \/ MapNext
SpecSurface == SurfaceInit /\ [][SurfaceOrMapNext]_vars

\* HeNeAr_fit alone.
FitInit ==
    /\ FitCall /\ PeaksIdle /\ TraceIdle /\ SurfaceIdle /\ MapIdle
    /\ ExtractIdle /\ MonoIdle /\ LinesIdle
SpecFit == FitInit /\ [][FitNext]_vars

\* ap_extract alone.
ExtractInit ==
    /\ ExtractCall /\ PeaksIdle /\ TraceIdle /\ SurfaceIdle /\ MapIdle
    /\ FitIdle /\ MonoIdle /\ LinesIdle
SpecExtract == ExtractInit /\ [][ExtractNext]_vars

\* _CheckMono alone.
MonoInit ==
    /\ MonoCall /\ PeaksIdle /\ TraceIdle /\ SurfaceIdle /\ MapIdle
    /\ FitIdle /\ ExtractIdle /\ LinesIdle
SpecMono == MonoInit /\ [][MonoNext]_vars

\* line_trace alone.
LinesInit ==
    /\ LinesCall /\ PeaksIdle /\ TraceIdle /\ SurfaceIdle /\ MapIdle
    /\ FitIdle /\ ExtractIdle /\ MonoIdle
SpecLines == LinesInit /\ [][LinesNext]_vars

-----------------------------------------------------------------------------
(* ---- properties of find_peaks ---- *)

ret_pcent == fp_ret[1]
ret_wcent == fp_ret[2]

StrictlyIncreasing(a) == \A k \in 1..(Len(a) - 1) : a[k] < a[k + 1]

\* The number of clusters of the flagged samples: maximal runs in which
\* consecutive flagged indices differ by at most minsep.
NumClusters(h, sep) ==
    IF h = <<>> THEN 0
    ELSE 1 + Cardinality({k \in 2..Len(h) : h[k] - h[k - 1] > sep})

\* Every flagged sample lies more than pwidth from both ends of the array.
ClustersInside(h) ==
    \A k \in 1..Len(h) : h[k] > pwidth /\ (NFlux - 1) - h[k] > pwidth

AllFitsConverged == \A k \in 1..Len(popt2) : IsFinite(popt2[k])

PairwiseDistinct(a) ==
    \A j, k \in 1..Len(a) : j # k => a[j] # a[k]

\* C6 (as claimed): with k >= 1 clusters at or above the percentile, each
\* more than pwidth from both ends, every fit converging and the
\* approximate wavelengths distinct, find_peaks returns exactly k
\* pixel-centers, the first cluster's included.
C6_OnePeakPerCluster ==
    LET h == High(flux, pthreshold)
    IN  (/\ fp_pc = "done"
         /\ ClustersInside(h)
         /\ AllFitsConverged
         /\ PairwiseDistinct(wave)
         /\ PairwiseDistinct(wcent_pix))
        => Len(ret_pcent) = NumClusters(h, minsep)

\* C7 (as claimed): the returned pixel-centers are strictly increasing and
\* each lies in [pwidth, len(flux) - pwidth).
C7_CentersIncreasingInRange ==
    fp_pc = "done" =>
        /\ StrictlyIncreasing(ret_pcent)
        /\ \A k \in 1..Len(ret_pcent) :
               ret_pcent[k] >= pwidth /\ ret_pcent[k] < NFlux - pwidth

\* C7 (amended): the returned entries are in strictly increasing order of
\* approximate wavelength, and each returned pixel-center is
\* (pk - pwidth) + c for a candidate index pk with
\* pwidth < pk < len(flux) - pwidth and the center c its fit returned.
C7_OrderedByWavelength ==
    fp_pc = "done" =>
        /\ StrictlyIncreasing(ret_wcent)
        /\ \A k \in 1..Len(ret_pcent) :
               \E i \in 1..Len(pk) :
                  /\ pk[i] > pwidth /\ pk[i] < NFlux - pwidth
                  /\ IsFinite(popt2[i])
                  /\ ret_pcent[k] = (pk[i] - pwidth) + popt2[i]
                  /\ ret_wcent[k] = wcent_pix[i]

\* C7 witness: two peaks returned from a falling wavelength axis, in
\* decreasing pixel order.
C7_Witness ==
    /\ fp_pc = "done"
    /\ Len(ret_pcent) = 2
    /\ At(wave, 0) > At(wave, 1)
    /\ ret_pcent[1] > ret_pcent[2]

\* C8: both returned sequences hold only finite values, have the same
\* length, entry k of each comes from the same converged candidate, a
\* candidate whose fit did not converge is in neither, and a failed fit
\* never makes find_peaks raise.
C8_FailedFitsDropped ==
    /\ fp_pc # "error"
    /\ fp_pc = "done" =>
          /\ Len(ret_pcent) = Len(ret_wcent)
          /\ \A k \in 1..Len(ret_pcent) :
                 /\ IsFinite(ret_pcent[k]) /\ IsFinite(ret_wcent[k])
                 /\ \E i \in 1..Len(pk) :
                        /\ IsFinite(popt2[i])
                        /\ ret_pcent[k] = pcent_pix[i]
                        /\ ret_wcent[k] = wcent_pix[i]

\* C8 witness: a return after one candidate's fit failed and another's
\* converged.
C8_Witness ==
    /\ fp_pc = "done"
    /\ \E i, j \in 1..Len(pk) : ~IsFinite(popt2[i]) /\ IsFinite(popt2[j])
    /\ Len(ret_pcent) = 1

-----------------------------------------------------------------------------
(* ---- properties of ap_trace ---- *)

\* The extent of the dispersion axis: the docstring's Saxis = 1 puts the
\* spatial dimension along Y (the rows), so the dispersion axis is the
\* columns; Saxis = 0 swaps them.
DispersionExtent == IF Saxis = 1 THEN img_shape[2] ELSE img_shape[1]

\* C4 (as claimed): a bin whose Gaussian fit does not converge gets the
\* global fit's center and tracing goes on; the failure never leaves
\* ap_trace as an error.
C4_BinFitFailureContained == at_raise # "curve_fit:556"

\* The larger of the requested nsteps and 4.
StepsWanted == IF nsteps_arg < 4 THEN 4 ELSE nsteps_arg

\* C9 (as claimed): once the bins are fitted, max(nsteps, 4) contiguous bins
\* covering the dispersion axis were fitted, and the spline is built from
\* that many (midpoint, center) pairs, at least 4.
C9_BinsEqualSteps ==
    (at_pc = "done" \/ at_raise = "UnivariateSpline:582") =>
        /\ Len(centers) = StepsWanted
        /\ xbins[1] = 0 /\ xbins[Len(centers) + 1] = DispersionExtent
        /\ Len(mxbins) = StepsWanted /\ Len(mybins) = StepsWanted
        /\ Len(mxbins) >= 4

\* C10: a returned trace has one element per index of the dispersion axis.
C10_TraceLength == at_pc = "done" => Len(my) = DispersionExtent

\* C10 witness: a trace returned for the swapped orientation of a
\* non-square image.
C10_Witness ==
    /\ at_pc = "done" /\ Saxis = 0 /\ img_shape[1] # img_shape[2]
    /\ Len(my) = img_shape[1]

-----------------------------------------------------------------------------
(* ---- properties of lines_to_surface and mapwavelength ---- *)

\* C5 (as claimed): with a mode outside {poly, spline, spline2d} both
\* functions fall back to a default mode and return; neither aborts
\* because of the mode.
C5_UnknownModeRecovered ==
    /\ (~ModeKnown(ls_mode) /\ ls_pc # "idle") => ls_pc \in {"call", "done"}
    /\ (~MapModeKnown(mw_mode) /\ mw_pc # "idle") => mw_pc \in {"call", "done"}

\* The pairs that HeNeAr_fit holds as accepted when identification is over:
\* the second pass's when there was one, else the first pass's.
Accepted == IF second_pass THEN pcent2 ELSE pcent
AcceptedWaves == IF second_pass THEN wcent2 ELSE wcent

\* C1: the pairs line_trace is called with are the second-pass pairs when
\* second_pass is enabled, and the first-pass pairs only when it is
\* disabled.
C1_TraceGetsAcceptedPairs ==
    traced => (lt_pcent = Accepted /\ lt_wcent = AcceptedWaves)

\* C2: a run that ends identification with fewer than fit_order+1 accepted
\* pairs aborts: line_trace is never called with so few pairs accepted, in
\* either policy, with or without the second pass.
C2_TooFewPairsAbort ==
    (previous = <<>> /\ traced) => Len(Accepted) >= fit_order + 1

\* Aborts brought about by the operator's reply in an order loop or by a
\* second pass that matches no line.
InputAborts == {"int:1280", "int:1379", "polyfit:1371"}

\* C3: a run given a non-empty previous file, in either policy, goes on
\* through the remaining steps, the second pass included, to line tracing:
\* it does not abort before line_trace is called, apart from the aborts
\* that a reply or the lamp's data bring about.
C3_PreviousRunsReachTracing ==
    (previous # <<>> /\ hf_pc = "error" /\ ~traced) => hf_raise \in InputAborts

\* C11: for a trace within [0, rows-1], ap_extract gives every column a
\* flux, a sky and an error and never raises, also where the aperture or a
\* sky window reaches past the first or last row.
C11_ExtractNeverRaises == ex_pc # "error"

\* The sum of the rows lo .. hi (0-based, both included) of a column.
RECURSIVE RowSum(_, _, _)
RowSum(col, lo, hi) ==
    IF lo > hi THEN 0 ELSE At(col, lo) + RowSum(col, lo + 1, hi)

\* Column i's window needs no clamping.
Unclamped(i) ==
    /\ ex_trace[i] - Px(apwidth) >= 0
    /\ ex_trace[i] + Px(apwidth) <= Px(Len(ex_img) - 1)

\* C12: the flux of a column whose window needs no clamping is the plain
\* sum of that column's 2*apwidth+1 pixels in the rows int(trace[i]-apwidth)
\* .. int(trace[i]+apwidth): no sky is taken off, and skysep, skywidth,
\* skydeg and coaddN have no part in it.
C12_FluxIsPlainSum ==
    \A i \in 1..Len(onedspec) :
        Unclamped(i) =>
            /\ onedspec[i] = RowSum(Column(ex_img, i),
                                    ToInt(ex_trace[i] - Px(apwidth)),
                                    ToInt(ex_trace[i] + Px(apwidth)))
            /\ ToInt(ex_trace[i] + Px(apwidth))
                 - ToInt(ex_trace[i] - Px(apwidth)) + 1 = 2 * apwidth + 1

\* ap_extract has returned, and a column with a fractional trace value
\* needed no clamping while its sky windows wrapped below row 0.
C12_Witness ==
    /\ ex_pc = "done"
    /\ \E i \in 1..Len(onedspec) :
         /\ Unclamped(i)
         /\ ex_trace[i] % 2 = 1
         /\ skysubflux[i].num > 0
         /\ ToInt(ex_trace[i]) - apwidth - skysep - skywidth < 0

\* C13: every refit of the pixel-to-wavelength polynomial (the incremental
\* refits of automatic matching, the interactive first fit, the second-pass
\* refit in either policy) has had _CheckMono called on its wavelength array
\* by the time HeNeAr_fit moves on to its next stage.
C13_RefitsAreChecked ==
    hf_pc \in {"pass2", "match2", "trace", "surface", "done"}
        => mono # "unchecked"

\* Some adjacent pair of w does not rise; some adjacent pair does not fall.
SomePairNotRising(w) ==
    \E k \in 1..(Len(w) - 1) : ~(IsFinite(w[k]) /\ IsFinite(w[k + 1])
                                  /\ w[k + 1] - w[k] > 0)
SomePairNotFalling(w) ==
    \E k \in 1..(Len(w) - 1) : ~(IsFinite(w[k]) /\ IsFinite(w[k + 1])
                                  /\ w[k] - w[k + 1] > 0)

\* C14: _CheckMono warns exactly when the array is neither strictly
\* increasing nor strictly decreasing over all its adjacent pairs: never on
\* a strictly rising or strictly falling array, always on one with an
\* inverted or an equal pair inside an otherwise monotonic run.  It always
\* returns, and it leaves the array as it was.
C14_WarnsIffNotMonotonic ==
    /\ [](cm_pc = "done" =>
            (warned <=> (SomePairNotRising(cm_wave)
                         /\ SomePairNotFalling(cm_wave))))
    /\ [][cm_pc = "call" => (cm_pc' = "done" /\ cm_wave' = cm_wave)]_vars

\* _CheckMono has warned about a rising array with one equal pair in it.
C14_Witness ==
    /\ cm_pc = "done" /\ warned
    /\ Len(cm_wave) = 3
    /\ IsFinite(cm_wave[3])
    /\ cm_wave[1] < cm_wave[2] /\ cm_wave[2] = cm_wave[3]

\* C15: a click whose reply to the wavelength prompt is not a valid float
\* leaves the pixel-centers, the wavelengths and the click positions as they
\* were; nothing is raised and the window goes on taking clicks.
C15_InvalidEntryDiscarded ==
    [][(hf_pc = "clicking" /\ event'.asked /\ ~event'.valid)
          => (wavefit' = wavefit /\ hf_pc' = "clicking"
              /\ hf_raise' = "none")]_vars

\* A pick is held, and the click handled last drew an invalid wavelength.
C15_Witness ==
    /\ hf_pc = "clicking"
    /\ event.asked /\ ~event.valid
    /\ Len(wavefit.pcent) = 1

\* C16: in either order loop a reply that is neither 'd' nor an integer is
\* discarded, the order and the coefficients kept and the operator asked
\* again: the loop never aborts the calibration on such a reply.
C16_BadReplyDiscarded == hf_raise \notin {"int:1280", "int:1379"}

\* The value, in half wavelength units, that lies on the straight line
\* between rows floor(t) and floor(t)+1 of a column, for t (in half pixels)
\* inside the rows.
OnTheLine(t, col) ==
    IF t % 2 = 0 THEN 2 * At(col, t \div 2)
    ELSE (2 - (t % 2)) * At(col, t \div 2)
           + (t % 2) * At(col, (t \div 2) + 1)

\* C17: in mode poly or spline mapwavelength returns one wavelength per
\* trace element: for a trace value inside [0, rows-1] the linear
\* interpolation between the two rows around it (the row's own value on a
\* whole row), outside it the value of the nearest edge row; the wavemap is
\* left as it was.
C17_InterpolatesBetweenRows ==
    /\ []((mw_pc = "done" /\ mw_mode \in {"poly", "spline"}) =>
            /\ Len(trace_wave) = Len(trace)
            /\ \A i \in 1..Len(trace) :
                 LET col == Column(wavemap, i)
                     t   == trace[i]
                 IN  trace_wave[i] =
                        IF t < 0 THEN 2 * col[1]
                        ELSE IF t > Px(Len(col) - 1) THEN 2 * col[Len(col)]
                        ELSE OnTheLine(t, col))
    /\ [][mw_pc = "call" => wavemap' = wavemap]_vars

\* mapwavelength has returned in mode poly for a trace with one value half
\* way between two rows and one value beyond the last row.
C17_Witness ==
    /\ mw_pc = "done" /\ mw_mode = "poly"
    /\ \E i, j \in 1..Len(trace) :
         /\ trace[i] % 2 = 1 /\ 0 < trace[i] /\ trace[i] < Px(Len(wavemap) - 1)
         /\ trace[j] > Px(Len(wavemap) - 1)
         /\ trace_wave[i] # 2 * wavemap[(trace[i] \div 2) + 1][i]

\* C18: in poly and spline mode every row that has a sample, the smallest
\* and the largest sampled row included, holds in the returned map the
\* evaluation of its own fit; no sampled row is left at the fill value 0.
C18_SampledRowsFitted ==
    (ls_pc = "done" /\ ls_mode \in {"poly", "spline"}) =>
        \A r \in SampledRows(nsamp) : wfit[r] = [fit |-> ls_mode, row |-> r]

\* C19: in poly and spline mode a row without samples between the smallest
\* and the largest sampled row is set to 0 and the fitting goes on: the call
\* does not raise at such a row, and the returned map holds 0 there.
C19_EmptyRowZeroFilled ==
    (ls_mode \in {"poly", "spline"} /\ SampledRows(nsamp) # {}) =>
        /\ ls_pc = "error" =>
             ~(ls_i \in RowsLooped(nsamp) /\ nsamp[ls_i] = 0)
        /\ ls_pc = "done" =>
             \A r \in RowsLooped(nsamp) : nsamp[r] = 0 => wfit[r] = ZeroRow

\* C20: in automatic first-pass matching and in second-pass matching a
\* visited peak is accepted iff some reference wavelength lies strictly
\* within tol of its predicted wavelength; an accepted peak is recorded as
\* (its pixel-center, a reference wavelength nearest to the prediction), a
\* rejected peak adds nothing, and matching goes on with the next peak.
C20_AcceptedIffWithinTol ==
    [][(hf_pc \in {"auto_match", "match2"} /\ hf_i' = hf_i + 1) =>
         LET px    == hf_pcent_pix[hf_ss[hf_i + 1]]
             lines == IF hf_pc = "auto_match" THEN linewave ELSE linewave2
             old   == IF hf_pc = "auto_match"
                      THEN <<pcent, wcent>> ELSE <<pcent2, wcent2>>
             new   == IF hf_pc = "auto_match"
                      THEN <<pcent', wcent'>> ELSE <<pcent2', wcent2'>>
         IN  /\ hf_pc' = hf_pc
             /\ IF \E k \in 1..Len(lines) : Abs(hf_wcent_pix' - lines[k]) < tol
                THEN \E k \in 1..Len(lines) :
                       /\ \A j \in 1..Len(lines) :
                            Abs(hf_wcent_pix' - lines[k])
                               <= Abs(hf_wcent_pix' - lines[j])
                       /\ new = <<Append(old[1], px), Append(old[2], lines[k])>>
                ELSE new = old]_vars

\* In the second pass one peak has been accepted and the peak visited last,
\* predicted exactly tol away from the nearest reference line, was not.
C20_Witness ==
    /\ hf_pc = "match2" /\ hf_i = 2
    /\ Len(pcent2) = 1
    /\ \A k \in 1..Len(linewave2) : Abs(hf_wcent_pix - linewave2[k]) >= tol
    /\ \E k \in 1..Len(linewave2) : Abs(hf_wcent_pix - linewave2[k]) = tol

\* The distance of the peak at pixel px, by the approximate wavelength
\* find_peaks reports for it, from the header's center wavelength.
FromCenter(px) == Abs(WGuess(px, sign) - wcen_approx)

\* C21: automatic first-pass matching visits every detected peak exactly
\* once, nearest to the header's center wavelength first (in non-decreasing
\* order of that distance); the wavelength of a visited peak is predicted
\* with the header's linear guess while at most fit_order matches are
\* accepted, and with the polynomial fitted to all the matches accepted so
\* far once there are more.
C21_CenterOutwardsOnce ==
    /\ [](hf_pc = "auto_match" =>
            /\ Len(hf_ss) = Len(hf_pcent_pix)
            /\ \A j, k \in 1..Len(hf_ss) :
                 /\ j # k => hf_ss[j] # hf_ss[k]
                 /\ j < k => FromCenter(hf_pcent_pix[hf_ss[j]])
                               <= FromCenter(hf_pcent_pix[hf_ss[k]])
            /\ hf_i <= Len(hf_ss))
    /\ [][hf_pc = "auto_match" =>
            \/ /\ hf_pc' = "auto_match"
               /\ hf_i' = hf_i + 1
               /\ UNCHANGED <<hf_ss, hf_pcent_pix>>
               /\ IF Len(pcent) <= fit_order
                  THEN /\ coeff = Guess(fit_order)
                       /\ hf_wcent_pix'
                            = WGuess(hf_pcent_pix[hf_ss[hf_i + 1]], sign)
                  ELSE coeff = Fitted(TRUE, fit_order, Len(pcent))
            \/ /\ hf_pc' = "pass2"
               /\ hf_i = Len(hf_ss)]_vars

\* All three peaks have been visited, the last one predicted by a fit.
C21_Witness ==
    /\ hf_pc = "auto_match"
    /\ hf_i = 3
    /\ Len(pcent) >= 2
    /\ hf_wcent_pix \notin {WGuess(px, sign) : px \in PeakPixels}

\* C22: in the second pass, in either policy, the first-pass polynomial is
\* evaluated for a peak in the pixel coordinate it was fitted in: centered
\* on len(slice)/2, or not.
C22_SameCoordinate ==
    (hf_pc = "match2" /\ hf_i > 0 /\ coeff.kind = "fit")
        => coeff.centered = SecondPassCentered

\* A row of line_trace on which the window was summed and the fit made.
RowFitted == ln_pc = "walk" /\ ln_k' = ln_k + 1

\* The seed of the fit made at the next row: the line's pixel on the slice
\* at the first row of either direction, the last accepted center after it.
SeedNow == IF ln_k = 0 THEN At(ln_pcent, ln_i) ELSE cguess

\* C23 The window summed and fitted at every row of line_trace is the
\* 2*maxbend window centered on the seed: the most recently accepted fitted
\* center, or the line's pixel-center at the first row of each direction.
C23_WindowFollowsCenter ==
    [][RowFitted => xline' = <<SeedNow - maxbend, SeedNow + maxbend>>]_vars

\* C23, as the code has it: the window summed and fitted at every row of a
\* line is the same 2*maxbend columns, centered on the line's pixel-center
\* on the slice, wherever the accepted centers have moved to.
C23_WindowFixedOnLine ==
    (ln_pc = "walk" /\ ln_k > 0)
        => /\ xline[1] = At(ln_pcent, ln_i) - maxbend
           /\ xline[2] - xline[1] = 2 * maxbend

C23_Witness ==
    /\ ln_pc = "walk" /\ ln_k > 1
    /\ Len(ln_xcent) > 0
    /\ cguess # At(ln_pcent, ln_i)

BinFitted == at_pc = "bins" /\ Len(centers') = Len(centers) + 1

\* The valid rows of the call (ydata2 of lines 468-471).
ValidRows == Range(Ydata(img_shape, Saxis, fmask))

\* C25 The center accepted for a bin of ap_trace is the whole-chip fit's
\* center if and only if the bin's own fitted center c has
\* c <= min(valid rows) + 25 or c >= max(valid rows) - 25, and is the bin's
\* own fitted center otherwise.
C25_GlobalFitIffAtMargin ==
    [][BinFitted =>
         centers'[Len(centers')] =
             IF \/ popt_bin' <= 2 * (Min(ValidRows) + 25)
                \/ popt_bin' >= 2 * (Max(ValidRows) - 25)
             THEN popt_tot
             ELSE popt_bin']_vars

C25_Witness ==
    /\ at_pc = "bins" /\ Len(centers) >= 2
    /\ popt_bin = 2 * (Max(ValidRows) - 25)
    /\ centers[Len(centers)] = popt_tot
    /\ popt_tot # popt_bin
    /\ centers[1] # popt_tot

\* C26 The trace returned by ap_trace, at the midpoint of a bin (where the
\* midpoint is a whole pixel), is the center accepted for that bin,
\* fraction of a pixel included.
C26_TraceKeepsFraction ==
    at_pc = "done"
        => \A k \in 1..Len(centers) :
             (mxbins[k] % 2 = 0) => my[(mxbins[k] \div 2) + 1] = centers[k]

\* A click handled by OnClick while the window is open.
Clicked == hf_pc = "clicking" /\ hf_pc' = "clicking" /\ event'.good

\* The entries of list a at the positions not in gone, in order.
Without(a, gone) ==
    LET kept == SetToSeq({k \in 1..Len(a) : k \notin gone})
    IN  [j \in 1..Len(kept) |-> a[kept[j]]]

\* C27 After a click within tol of existing picks, every pick whose prompt
\* was answered "d" is gone from the pixel-centers, the wavelengths and the
\* click positions, every other pick is kept, and the click adds no pick
\* when some deletion was confirmed.
C27_EveryConfirmedPickDeleted ==
    [][Clicked =>
         LET gone == {k \in 1..Len(wavefit.pcent) : event'.kill_d[k] = "d"}
         IN  gone # {} =>
               /\ wavefit'.pcent = Without(wavefit.pcent, gone)
               /\ wavefit'.wcent = Without(wavefit.wcent, gone)
               /\ wavefit'.ixlib = Without(wavefit.ixlib, gone)]_vars

\* C30 The pixel-centers, the wavelengths and the click positions always
\* have the same length, and every click leaves them alone, removes the
\* same position from all three, or appends one entry to all three, so that
\* position k of each is the same pick.
C30_ListsMoveTogether ==
    /\ [](Len(wavefit.pcent) = Len(wavefit.wcent)
            /\ Len(wavefit.pcent) = Len(wavefit.ixlib))
    /\ [][(hf_pc = "clicking" /\ hf_pc' = "clicking") =>
            \/ wavefit' = wavefit
            \/ \E k \in 1..Len(wavefit.pcent) :
                  /\ wavefit'.pcent = Remove(wavefit.pcent, k)
                  /\ wavefit'.wcent = Remove(wavefit.wcent, k)
                  /\ wavefit'.ixlib = Remove(wavefit.ixlib, k)
            \/ /\ wavefit'.pcent = Append(wavefit.pcent,
                                          Centroid(event'.ix, sign))
               /\ wavefit'.wcent = Append(wavefit.wcent, event'.number)
               /\ wavefit'.ixlib = Append(wavefit.ixlib, event'.ix)]_vars

C30_Witness ==
    /\ hf_pc = "clicking"
    /\ event.good /\ Len(event.kill_d) = 2 /\ event.kill_d[2] = "d"
    /\ Len(wavefit.pcent) = 1
    /\ wavefit.pcent[1] = Centroid(wavefit.ixlib[1], sign)

\* The program is in an interactive order-adjustment loop.
InOrderLoop == hf_pc \in {"order1", "order2"}

\* The accepted pairs the loop at hand fits.
LoopPairs == IF hf_pc = "order1" THEN pcent ELSE pcent2

\* C28 An order-adjustment loop goes on to the next stage only on the reply
\* "d"; a reply that is an integer becomes the fit order and the same
\* accepted pairs, which the loop never changes, are fitted again at it; when
\* the loop is left the coefficients are the fit at the last order entered,
\* and that order is the one passed to lines_to_surface.
C28_OrderLoop ==
    /\ [][InOrderLoop =>
            /\ (hf_pc' \notin {hf_pc, "error"}) => done = "d"
            /\ (hf_pc' = hf_pc /\ done \in {"1", "2"}) =>
                   /\ StrOf(fit_order') = done
                   /\ coeff' = [kind |-> "fit", centered |-> FALSE,
                                order |-> fit_order', n |-> Len(LoopPairs)]
            /\ (hf_pc' \notin {hf_pc, "error"}) =>
                   /\ coeff.kind = "fit" /\ coeff.order = fit_order
                   /\ coeff.n = Len(LoopPairs)
            /\ UNCHANGED <<pcent, wcent, pcent2, wcent2>>]_vars
    /\ []((interac /\ hf_pc = "done") =>
            (surf_order = fit_order /\ coeff.order = surf_order))

C28_Witness ==
    /\ interac /\ hf_pc = "done" /\ second_pass
    /\ surf_order = 2 /\ coeff.order = 2
    /\ Len(pcent2) > 0

\* The number of pixels summed into column i's flux: the rows of the image
\* from int(trace[i] - widthdn) up to, not including, int(trace[i] + widthup
\* + 1).
PixelsSummed(i) ==
    LET t  == ex_trace[i]
        lo == ToInt(t - WidthDn(t, apwidth))
        hi == Min({ToInt(t + WidthUp(t, apwidth, Len(ex_img)) + Px(1)),
                   Len(ex_img)})
    IN  IF hi > lo THEN hi - lo ELSE 0

\* C29 With skydeg = 0 the sky returned for column i is the mean of the
\* column's flanking sky pixels times the number of pixels summed into the
\* column's flux, in the columns whose window was clamped at an edge of the
\* image as in the others.
C29_SkyScaledByPixelsSummed ==
    skydeg = 0 =>
        \A i \in 1..Len(skysubflux) :
            LET z == SkyPixels(Column(ex_img, i),
                               SkyRows(ex_trace[i], apwidth, skysep, skywidth))
            IN  skysubflux[i].num * Len(z)
                    = SumSeq(z) * PixelsSummed(i) * skysubflux[i].den

=========================================================================
